---- MODULE Spec2Model ----
(***************************************************************************)
(* A model of the O3D codec (o3d_io/o3dconvert.py), of the exporter's call *)
(* of it (o3d_io/io_o3d_export.py) and of the CFG reader                   *)
(* (o3d_io/o3d_cfg_parser.py).                                             *)
(*                                                                         *)
(* Bytes are naturals 0..255 and a buffer is a sequence of bytes. Offsets  *)
(* are 0-based as in the source, so the byte at offset o is buff[o + 1].   *)
(* A float32 is held as its IEEE-754 bit pattern; the patterns used have   *)
(* the sign bit clear, so they fit signed 32-bit integers. The 32-bit      *)
(* encryption key, which may be 0xffffffff, is held as two 16-bit halves   *)
(* <<low, high>>.                                                          *)
(***************************************************************************)
EXTENDS Integers, Sequences, FiniteSets, TLC

\* Largest number of records (vertices + triangles + materials + bones) of a
\* document handed to export_o3d.
MaxItems == 3

Min(a, b) == IF a < b THEN a ELSE b

\* ------------------------------------------------------------- struct

\* struct.pack("<B" / "<H" / "<I" / "<f", n): w little-endian bytes.
RECURSIVE Pack(_, _)
Pack(n, w) ==
    IF w = 0 THEN <<>> ELSE <<n % 256>> \o Pack(n \div 256, w - 1)

\* struct.pack of a run of equally wide scalars ("<fff...", "<III").
RECURSIVE PackAll(_, _)
PackAll(values, w) ==
    IF values = <<>> THEN <<>>
    ELSE Pack(Head(values), w) \o PackAll(Tail(values), w)

\* The 32-bit key <<low, high>> as "<I".
PackKey(key) == Pack(key[1], 2) \o Pack(key[2], 2)

\* struct.pack("<{n}p", bytes): a Pascal string of n bytes in all: the length
\* byte min(len, n - 1), the first n - 1 bytes, zero padding; "0p" is empty.
PackP(bytes, n) ==
    IF n = 0 THEN <<>>
    ELSE LET k == Min(Len(bytes), n - 1)
         IN  <<k>> \o SubSeq(bytes, 1, k) \o [j \in 1..(n - 1 - k) |-> 0]

\* struct.unpack_from raises struct.error unless size bytes lie at offset.
Fits(buff, offset, size) == offset + size <= Len(buff)

\* struct.unpack_from of one little-endian scalar of w bytes.
RECURSIVE Unpack(_, _, _)
Unpack(buff, offset, w) ==
    IF w = 0 THEN 0
    ELSE buff[offset + 1] + 256 * Unpack(buff, offset + 1, w - 1)

UnpackKey(buff, offset) == <<Unpack(buff, offset, 2), Unpack(buff, offset + 2, 2)>>

\* struct.unpack_from("<{n}p"): the length byte, then at most n - 1 bytes.
UnpackP(buff, offset, n) ==
    IF n = 0 THEN <<>>
    ELSE LET k == Min(buff[offset + 1], n - 1)
         IN  SubSeq(buff, offset + 2, offset + 1 + k)

\* ------------------------------------------------------------- cp1252

\* Python's cp1252 codec, byte -> code point, for the bytes 0x80..0x9f that
\* it maps away from themselves; 0 marks the five bytes it leaves undefined.
Cp1252High ==
    <<8364, 0, 8218, 402, 8222, 8230, 8224, 8225, 710, 8240, 352, 8249, 338, 0, 381, 0,
      0, 8216, 8217, 8220, 8221, 8226, 8211, 8212, 732, 8482, 353, 8250, 339, 0, 382, 376>>

Cp1252Defined(b) == b < 128 \/ b >= 160 \/ Cp1252High[b - 127] # 0

Cp1252Char(b) == IF b < 128 \/ b >= 160 THEN b ELSE Cp1252High[b - 127]

\* str.encode("cp1252") of one character (the model's names are encodable).
Cp1252Byte(c) ==
    IF c < 128 \/ (c >= 160 /\ c < 256) THEN c
    ELSE CHOOSE b \in 128..159 : Cp1252High[b - 127] = c

Cp1252Encode(name) == [j \in 1..Len(name) |-> Cp1252Byte(name[j])]

\* bytes.decode("cp1252"): fails on an undefined byte.
Cp1252Decodable(bytes) == \A j \in 1..Len(bytes) : Cp1252Defined(bytes[j])

Cp1252Decode(bytes) == [j \in 1..Len(bytes) |-> Cp1252Char(bytes[j])]

HexDigit(d) == IF d < 10 THEN 48 + d ELSE 87 + d

\* bytes.decode("cp1252", errors="backslashreplace"): an undefined byte
\* becomes the four characters \xNN.
RECURSIVE Cp1252DecodeReplace(_)
Cp1252DecodeReplace(bytes) ==
    IF bytes = <<>> THEN <<>>
    ELSE LET b == Head(bytes)
         IN  (IF Cp1252Defined(b) THEN <<Cp1252Char(b)>>
              ELSE <<92, 120, HexDigit(b \div 16), HexDigit(b % 16)>>)
             \o Cp1252DecodeReplace(Tail(bytes))

\* ------------------------------------------------------------- crypto

\* The fallbacks used when o3d_crypto cannot be imported.
init_rand(encryption_header, alt_encryption_seed, version) == 0

decrypt_vert(vert, encryption_header, alt_encryption_seed) == vert

encrypt_vert(vert, encryption_header, alt_encryption_seed) == vert

\* ------------------------------------------------------------- decoding

\* What a reader returns: ok is FALSE when struct.error (or any other
\* exception) leaves it, and then val and offset mean nothing.
Raised == [ok |-> FALSE, val |-> <<>>, offset |-> 0]

Returned(val, offset) == [ok |-> TRUE, val |-> val, offset |-> offset]

import_vertex(buff, offset) ==
    IF ~Fits(buff, offset, 32) THEN Raised
    ELSE LET v == [k \in 1..8 |-> Unpack(buff, offset + 4 * (k - 1), 4)]
         IN  Returned(<<SubSeq(v, 1, 3), SubSeq(v, 4, 6), SubSeq(v, 7, 8)>>, offset + 32)

import_triangle(buff, offset, long_triangle_indices, invert_normals) ==
    LET w == IF long_triangle_indices THEN 4 ELSE 2
        t == [k \in 1..3 |-> Unpack(buff, offset + w * (k - 1), w)]
        m == Unpack(buff, offset + 3 * w, 2)
    IN  IF ~Fits(buff, offset, 3 * w + 2) THEN Raised
        ELSE IF invert_normals THEN Returned(<<t, m>>, offset + 3 * w + 2)
        ELSE Returned(<<<<t[3], t[2], t[1]>>, m>>, offset + 3 * w + 2)

import_material(buff, offset) ==
    IF ~Fits(buff, offset, 45) THEN Raised
    ELSE LET m == [k \in 1..11 |-> Unpack(buff, offset + 4 * (k - 1), 4)]
             path_len == buff[offset + 45] + 1
             raw == UnpackP(buff, offset + 44, path_len)
             \* the bare except: a short buffer and a bad code page alike
             \* leave the empty name
             m_name == IF Fits(buff, offset + 44, path_len) /\ Cp1252Decodable(raw)
                       THEN Cp1252Decode(raw) ELSE <<>>
         IN  Returned(<<SubSeq(m, 1, 4), SubSeq(m, 5, 7), m[11], m_name>>,
                      offset + 44 + path_len)

RECURSIVE import_weights(_, _, _, _, _)
import_weights(buff, offset, long_triangle_indices, n, weights) ==
    LET w == IF long_triangle_indices THEN 4 ELSE 2
    IN  IF n = 0 THEN Returned(weights, offset)
        ELSE IF ~Fits(buff, offset, w + 4) THEN Raised
        ELSE import_weights(buff, offset + w + 4, long_triangle_indices, n - 1,
                 Append(weights, <<Unpack(buff, offset, w), Unpack(buff, offset + w, 4)>>))

import_bone(buff, offset, long_triangle_indices) ==
    IF ~Fits(buff, offset, 1) THEN Raised
    ELSE LET h == buff[offset + 1]
         IN  IF ~Fits(buff, offset, h + 1) \/ ~Fits(buff, offset + h + 1, 2) THEN Raised
             ELSE LET b_name == Cp1252DecodeReplace(UnpackP(buff, offset, h + 1))
                      n_weights == Unpack(buff, offset + h + 1, 2)
                      ws == import_weights(buff, offset + h + 3, long_triangle_indices,
                                           n_weights, <<>>)
                  IN  IF ~ws.ok THEN Raised
                      ELSE Returned(<<b_name, ws.val>>, ws.offset)

\* The count that prefixes a list: "<I" under the long header, else "<H".
CountWidth(l_header) == IF l_header THEN 4 ELSE 2

RECURSIVE import_vertices(_, _, _, _, _, _)
import_vertices(buff, offset, n, encrypted, key, verts) ==
    IF n = 0 THEN Returned(verts, offset)
    ELSE LET nv == import_vertex(buff, offset)
         IN  IF ~nv.ok THEN Raised
             ELSE import_vertices(buff, nv.offset, n - 1, encrypted, key,
                      Append(verts, IF encrypted THEN decrypt_vert(nv.val, key[1], key[2])
                                    ELSE nv.val))

import_vertex_list(buff, offset, l_header, encrypted, alt_encryption_seed, encryption_header) ==
    IF ~Fits(buff, offset, CountWidth(l_header)) THEN Raised
    ELSE import_vertices(buff, offset + CountWidth(l_header),
                         Unpack(buff, offset, CountWidth(l_header)), encrypted,
                         <<encryption_header, alt_encryption_seed>>, <<>>)

RECURSIVE import_triangles(_, _, _, _, _)
import_triangles(buff, offset, n, long_triangle_indices, tris) ==
    IF n = 0 THEN Returned(tris, offset)
    ELSE LET nt == import_triangle(buff, offset, long_triangle_indices, FALSE)
         IN  IF ~nt.ok THEN Raised
             ELSE import_triangles(buff, nt.offset, n - 1, long_triangle_indices,
                                   Append(tris, nt.val))

import_triangle_list(buff, offset, l_header, long_triangle_indices) ==
    IF ~Fits(buff, offset, CountWidth(l_header)) THEN Raised
    ELSE import_triangles(buff, offset + CountWidth(l_header),
                          Unpack(buff, offset, CountWidth(l_header)),
                          long_triangle_indices, <<>>)

RECURSIVE import_materials(_, _, _, _)
import_materials(buff, offset, n, mats) ==
    IF n = 0 THEN Returned(mats, offset)
    ELSE LET nm == import_material(buff, offset)
         IN  IF ~nm.ok THEN Raised
             ELSE import_materials(buff, nm.offset, n - 1, Append(mats, nm.val))

import_material_list(buff, offset, l_header) ==
    IF ~Fits(buff, offset, 2) THEN Raised
    ELSE import_materials(buff, offset + 2, Unpack(buff, offset, 2), <<>>)

RECURSIVE import_bones(_, _, _, _, _)
import_bones(buff, offset, n, long_triangle_indices, bones) ==
    IF n = 0 THEN Returned(bones, offset)
    ELSE LET nb == import_bone(buff, offset, long_triangle_indices)
         IN  IF ~nb.ok THEN Raised
             ELSE import_bones(buff, nb.offset, n - 1, long_triangle_indices,
                               Append(bones, nb.val))

import_bone_list(buff, offset, l_header, long_triangle_indices) ==
    IF ~Fits(buff, offset, CountWidth(l_header)) THEN Raised
    ELSE import_bones(buff, offset + CountWidth(l_header),
                      Unpack(buff, offset, CountWidth(l_header)),
                      long_triangle_indices, <<>>)

import_transform_rows(buff, offset) ==
    IF ~Fits(buff, offset, 64) THEN Raised
    ELSE LET m == [k \in 1..16 |-> Unpack(buff, offset + 4 * (k - 1), 4)]
         IN  Returned(<<SubSeq(m, 1, 4), SubSeq(m, 5, 8), SubSeq(m, 9, 12),
                        SubSeq(m, 13, 16)>>, offset + 64)

import_transform(buff, offset) ==
    IF ~Fits(buff, offset, 64) THEN Raised
    ELSE LET m == [k \in 1..16 |-> Unpack(buff, offset + 4 * (k - 1), 4)]
         IN  Returned(<<<<m[1], m[5], m[9], m[13]>>,
                        <<m[2], m[6], m[10], m[14]>>,
                        <<m[3], m[7], m[11], m[15]>>,
                        <<m[4], m[8], m[12], m[16]>>>>, offset + 64)

\* ------------------------------------------------------------- encoding

export_vertex(vertex) == PackAll(vertex, 4)

export_triangle(triangle, long_triangle_indices, invert_normals) ==
    LET t == SubSeq(triangle, 1, 3)
    IN  PackAll(IF invert_normals THEN <<t[3], t[2], t[1]>> ELSE t,
                IF long_triangle_indices THEN 4 ELSE 2)
        \o Pack(triangle[4], 2)

export_material(material) ==
    PackAll(SubSeq(material, 1, 11), 4)
    \o PackP(Cp1252Encode(material[12]), Len(material[12]) + 1)

RECURSIVE export_weights(_, _)
export_weights(weights, long_triangle_indices) ==
    IF weights = <<>> THEN <<>>
    ELSE Pack(Head(weights)[1], IF long_triangle_indices THEN 4 ELSE 2)
         \o Pack(Head(weights)[2], 4)
         \o export_weights(Tail(weights), long_triangle_indices)

export_bone(bone, long_triangle_indices) ==
    Pack(Len(bone[1]), 1)
    \o PackP(Cp1252Encode(bone[1]), Len(bone[1]))
    \o Pack(Len(bone[2]), 2)
    \o export_weights(bone[2], long_triangle_indices)

RECURSIVE export_vertices(_, _, _, _)
export_vertices(vertex_list, encrypted, encryption_key, alt_encryption_seed) ==
    IF vertex_list = <<>> THEN <<>>
    ELSE export_vertex(IF encrypted
                       THEN encrypt_vert(Head(vertex_list), encryption_key, alt_encryption_seed)
                       ELSE Head(vertex_list))
         \o export_vertices(Tail(vertex_list), encrypted, encryption_key, alt_encryption_seed)

export_vertex_list(vertex_list, encrypted, encryption_key, long_header, alt_encryption_seed) ==
    <<23>> \o Pack(Len(vertex_list), CountWidth(long_header))
    \o export_vertices(vertex_list, encrypted, encryption_key, alt_encryption_seed)

RECURSIVE export_triangles(_, _, _)
export_triangles(triangle_list, long_triangle_indices, invert_triangle_winding) ==
    IF triangle_list = <<>> THEN <<>>
    ELSE export_triangle(Head(triangle_list), long_triangle_indices, invert_triangle_winding)
         \o export_triangles(Tail(triangle_list), long_triangle_indices, invert_triangle_winding)

export_triangle_list(triangle_list, long_triangle_indices, long_header, invert_triangle_winding) ==
    <<73>> \o Pack(Len(triangle_list), CountWidth(long_header))
    \o export_triangles(triangle_list, long_triangle_indices, invert_triangle_winding)

RECURSIVE export_materials(_)
export_materials(material_list) ==
    IF material_list = <<>> THEN <<>>
    ELSE export_material(Head(material_list)) \o export_materials(Tail(material_list))

export_material_list(material_list, long_header) ==
    IF Len(material_list) = 0 THEN <<>>
    ELSE <<38>> \o Pack(Len(material_list), 2) \o export_materials(material_list)

RECURSIVE export_bones(_, _)
export_bones(bone_list, long_triangle_indices) ==
    IF bone_list = <<>> THEN <<>>
    ELSE export_bone(Head(bone_list), long_triangle_indices)
         \o export_bones(Tail(bone_list), long_triangle_indices)

\* The count the bone section is given: the source writes the literal 0.
bone_count(bone_list) == 0

export_bone_list(bone_list, long_header, long_triangle_indices) ==
    IF Len(bone_list) = 0 THEN <<>>
    ELSE <<84>> \o Pack(bone_count(bone_list), CountWidth(long_header))
         \o export_bones(bone_list, long_triangle_indices)

\* A float32 near 1.0 whose four bytes differ: 0x3f800000 + k * 0x010101.
Float(k) == 1065353216 + 65793 * k

\* None, the transform argument's default.
None == <<>>

IdentityFlat == <<Float(0), 0, 0, 0, 0, Float(0), 0, 0, 0, 0, Float(0), 0, 0, 0, 0, Float(0)>>

export_transform(transform) ==
    <<121>> \o PackAll(IF transform = None THEN IdentityFlat ELSE transform, 4)

\* The header export_o3d writes: the magic and the version, and for a version
\* above 3 the options byte and the key (0xffffffff unless encrypted).
export_header(version, encrypted, encryption_key, long_triangle_indices, alt_encryption_seed) ==
    <<132, 25, version>>
    \o (IF version > 3
        THEN Pack((IF long_triangle_indices THEN 1 ELSE 0)
                  + (IF alt_encryption_seed THEN 2 ELSE 0), 1)
             \o PackKey(IF ~encrypted THEN <<65535, 65535>> ELSE encryption_key)
        ELSE <<>>)

\* do_export: o3d_matrix.transpose(), then [x for y in o3d_matrix for x in y].
transposed_flat(o3d_matrix) ==
    [k \in 1..16 |-> o3d_matrix[((k - 1) % 4) + 1][((k - 1) \div 4) + 1]]

\* ------------------------------------------------------------- documents

\* The i-th vertex, triangle, material and bone of a document: each list of a
\* document is determined by its length.
VertexOf(i) == [j \in 1..8 |-> Float(8 * i + j)]

TriangleOf(i) == <<0, i - 1, i, i>>

NameOf(i) == [j \in 1..i |-> IF j = 1 THEN 8364 ELSE 96 + j]

MaterialOf(i) == [j \in 1..12 |-> IF j = 12 THEN NameOf(i) ELSE Float(100 * i + j)]

BoneOf(i) == <<NameOf(i), [j \in 1..i |-> <<j - 1, Float(200 + j)>>]>>

Sizes ==
    {n \in [{"v", "t", "m", "b"} -> 0..MaxItems] : n.v + n.t + n.m + n.b <= MaxItems}

Identity == <<<<Float(0), 0, 0, 0>>, <<0, Float(0), 0, 0>>,
              <<0, 0, Float(0), 0>>, <<0, 0, 0, Float(0)>>>>

\* A matrix with sixteen different entries.
Skewed == [r \in 1..4 |-> [c \in 1..4 |-> Float(4 * r + c)]]

Versions == {3, 4}

\* The arguments of one export_o3d call.
Arguments(n, matrix, version, flags) ==
    [vertex_list |-> [i \in 1..n.v |-> VertexOf(i)],
     triangle_list |-> [i \in 1..n.t |-> TriangleOf(i)],
     material_list |-> [i \in 1..n.m |-> MaterialOf(i)],
     bone_list |-> [i \in 1..n.b |-> BoneOf(i)],
     transform |-> transposed_flat(matrix),
     encrypted |-> flags.encrypted,
     encryption_key |-> IF flags.encrypted THEN <<22136, 4660>> ELSE <<0, 0>>,
     version |-> version,
     long_triangle_indices |-> flags.long_triangle_indices,
     alt_encryption_seed |-> flags.alt_encryption_seed,
     invert_triangle_winding |-> flags.invert_triangle_winding]

Flags ==
    [encrypted : BOOLEAN, long_triangle_indices : BOOLEAN,
     alt_encryption_seed : BOOLEAN, invert_triangle_winding : BOOLEAN]

\* What export_mesh passes, the index width left open.
MeshFlags ==
    {f \in Flags : ~f.encrypted /\ f.alt_encryption_seed /\ f.invert_triangle_winding}

\* ------------------------------------------------------------- read_cfg

\* A Python dict is a function; d[k] = v adds the key k or replaces its value.
Put(d, k, v) == [x \in DOMAIN d \cup {k} |-> IF x = k THEN v ELSE d[x]]

\* The lines that start with "[" and end with "]".
Bracketed ==
    {"[LOD]", "[groups]", "[friendlyname]", "[surface]", "[mesh]",
     "[interiorlight]", "[spotlight]", "[light_enh]", "[light_enh_2]",
     "[matl]", "[matl_change]", "[matl_alpha]", "[matl_transmap]",
     "[matl_envmap]", "[matl_envmap_mask]", "[matl_bumpmap]", "[alphascale]",
     "[matl_noZwrite]", "[matl_noZcheck]", "[matl_allcolor]", "[matl_nightmap]",
     "[matl_lightmap]", "[foo]", "[]"}

\* len(line) > 2 and line[0] == "[" and line[-1] == "]": of the bracketed
\* lines only "[]" is too short.
IsHeader(line) == line \in Bracketed /\ line # "[]"

\* A float is the integer number of its tenths; Number(n) is the float n.
Number(n) == 10 * n

\* float(line) succeeds on these lines.
IsFloat(line) == line \in {"0", "1", "2", "-1", "0.0", "0.5", "1.0"}

float(line) ==
    CASE line = "0" -> Number(0)
      [] line = "1" -> Number(1)
      [] line = "2" -> Number(2)
      [] line = "-1" -> Number(-1)
      [] line = "0.0" -> Number(0)
      [] line = "0.5" -> 5
      [] line = "1.0" -> Number(1)

\* int(line) succeeds on these lines; it rejects a decimal point.
IsInt(line) == line \in {"0", "1", "2", "-1"}

int(line) ==
    CASE line = "0" -> 0
      [] line = "1" -> 1
      [] line = "2" -> 2
      [] line = "-1" -> -1

\* line.lower(), for the lines a [matl] section is given as a texture.
lower(line) ==
    CASE line = "Tex.BMP" -> "tex.bmp"
      [] line = "B.bmp" -> "b.bmp"
      [] OTHER -> line

\* What a parameter line is converted with, and whether that raises.
Parses(kind, line) ==
    CASE kind = "str" -> TRUE
      [] kind \in {"float", "float/255"} -> IsFloat(line)
      [] kind \in {"int", "int==1"} -> IsInt(line)

Converted(kind, line) ==
    CASE kind = "str" -> line
      [] kind = "float" -> float(line)
      [] kind = "float/255" -> <<float(line), 255>>
      [] kind = "int" -> int(line)
      [] kind = "int==1" -> (int(line) = 1)

\* The parameters of the light sections, in the order of their lines.
InteriorLightParams ==
    <<<<"variable", "str">>, <<"range", "float">>, <<"red", "float/255">>,
      <<"green", "float/255">>, <<"blue", "float/255">>, <<"x_pos", "float">>,
      <<"y_pos", "float">>, <<"z_pos", "float">>>>

SpotlightParams ==
    <<<<"x_pos", "float">>, <<"y_pos", "float">>, <<"z_pos", "float">>,
      <<"x_fwd", "float">>, <<"y_fwd", "float">>, <<"z_fwd", "float">>,
      <<"col_r", "float/255">>, <<"col_g", "float/255">>, <<"col_b", "float/255">>,
      <<"range", "float">>, <<"inner_angle", "float">>, <<"outer_angle", "float">>>>

LightEnhParams ==
    <<<<"x_pos", "float">>, <<"y_pos", "float">>, <<"z_pos", "float">>,
      <<"col_r", "float/255">>, <<"col_g", "float/255">>, <<"col_b", "float/255">>,
      <<"size", "float">>, <<"brightness_var", "str">>, <<"brightness", "float">>,
      <<"z_offset", "float">>, <<"effect", "int">>, <<"ramp_time", "float">>,
      <<"texture", "str">>>>

LightEnh2Params ==
    <<<<"x_pos", "float">>, <<"y_pos", "float">>, <<"z_pos", "float">>,
      <<"x_fwd", "float">>, <<"y_fwd", "float">>, <<"z_fwd", "float">>,
      <<"x_rot", "float">>, <<"y_rot", "float">>, <<"z_rot", "float">>,
      <<"omni", "int==1">>, <<"rotating", "int">>,
      <<"col_r", "float/255">>, <<"col_g", "float/255">>, <<"col_b", "float/255">>,
      <<"size", "float">>, <<"max_brightness_angle", "float">>,
      <<"min_brightness_angle", "float">>, <<"brightness_var", "str">>,
      <<"brightness", "float">>, <<"z_offset", "float">>, <<"effect", "int">>,
      <<"cone_effect", "int==1">>, <<"ramp_time", "float">>, <<"texture", "str">>>>

\* The sections that return to the loop head when no material is open.
MaterialSections ==
    {"[matl_alpha]", "[matl_transmap]", "[matl_envmap]", "[matl_envmap_mask]",
     "[matl_bumpmap]", "[alphascale]", "[matl_noZwrite]", "[matl_noZcheck]",
     "[matl_allcolor]", "[matl_nightmap]", "[matl_lightmap]"}

\* The sections that index the meshes of the bucket with current_mesh.
MeshSections ==
    {"[interiorlight]", "[spotlight]", "[light_enh]", "[light_enh_2]",
     "[matl]", "[matl_change]"}

NewBucket == [meshes |-> <<>>, surface |-> FALSE, cfg_data |-> <<>>]

NewMesh(line) ==
    [path |-> <<"folder", line>>, matls |-> <<>>, light_flares |-> <<>>,
     interior_lights |-> <<>>, spotlights |-> <<>>, cfg_data |-> <<>>]

\* read_cfg's locals before the first line; state and error tell how the
\* call ended.
CfgLocals ==
    [i |-> 0, current_command |-> None, current_lod |-> Number(-1),
     current_mat |-> None, current_mesh |-> None, param_ind |-> -1,
     interior_light_ind |-> 0, spotlight_ind |-> 0,
     cfg_data |-> (Number(-1) :> NewBucket),
     state |-> "reading", error |-> ""]

Raise(c, error) == [c EXCEPT !.state = "raised", !.error = error]

\* cfg_data[current_lod] and the dicts below it.
Bucket(c) == c.cfg_data[c.current_lod]

HasMesh(c) ==
    c.current_mesh # None /\ c.current_mesh[1] \in DOMAIN Bucket(c).meshes

Mesh(c) == Bucket(c).meshes[c.current_mesh[1]]

Matl(c) == Mesh(c).matls[c.current_mat[1]]

SetBucket(c, bucket) == [c EXCEPT !.cfg_data = Put(@, c.current_lod, bucket)]

SetMesh(c, mesh) ==
    SetBucket(c, Put(Bucket(c), "meshes", Put(Bucket(c).meshes, c.current_mesh[1], mesh)))

SetMatl(c, matl) ==
    SetMesh(c, Put(Mesh(c), "matls", Put(Mesh(c).matls, c.current_mat[1], matl)))

\* [LOD]: the parameter opens a bucket, replacing one with the same key.
read_lod(c, line) ==
    IF c.param_ind # 0 THEN c
    ELSE IF ~IsFloat(line) THEN Raise(c, "ValueError")
    ELSE [c EXCEPT !.current_lod = float(line),
                   !.current_mesh = None,
                   !.current_mat = None,
                   !.cfg_data = Put(@, float(line), NewBucket)]

read_groups(c, line) ==
    CASE c.param_ind = -1 -> SetBucket(c, Put(Bucket(c), "groups", <<>>))
      [] c.param_ind = 0 ->
            IF ~IsInt(line) THEN Raise(c, "ValueError")
            ELSE SetBucket(c, Put(Bucket(c), "groups",
                                  Put(Bucket(c).groups, "ind", int(line))))
      [] c.param_ind = 1 ->
            SetBucket(c, Put(Bucket(c), "groups", Put(Bucket(c).groups, "group", line)))
      [] OTHER -> c

read_friendlyname(c, line) ==
    IF c.param_ind = 0 THEN SetBucket(c, Put(Bucket(c), "friendlyname", line)) ELSE c

read_surface(c, line) == SetBucket(c, Put(Bucket(c), "surface", TRUE))

read_mesh_keeps_material(c, line) ==
    IF c.param_ind # 0 THEN c
    ELSE LET opened == [c EXCEPT !.current_mesh = <<line>>]
         IN  SetBucket(opened,
                       Put(Bucket(c), "meshes", Put(Bucket(c).meshes, line, NewMesh(line))))

\* [mesh]: the parameter opens a mesh, replacing one with the same path.
read_mesh(c, line) ==
    IF c.param_ind # 0 THEN c
    ELSE LET opened == [c EXCEPT !.current_mat = None, !.current_mesh = <<line>>]
         IN  SetMesh(opened, NewMesh(line))

\* The dict of a light after the parameter line is stored in it.
WithParam(c, params, line, light) ==
    IF c.param_ind + 1 \in 1..Len(params)
    THEN Put(light, params[c.param_ind + 1][1],
             Converted(params[c.param_ind + 1][2], line))
    ELSE light

ParamRaises(c, params, line) ==
    /\ c.param_ind + 1 \in 1..Len(params)
    /\ ~Parses(params[c.param_ind + 1][2], line)

\* [interiorlight] and [spotlight]: numbered lights of the current mesh.
read_numbered_light(c, line, counter, field, params) ==
    LET counted == IF c.param_ind = -1 THEN [c EXCEPT ![counter] = @ + 1] ELSE c
        ind == counted[counter]
    IN  IF ~HasMesh(c) THEN Raise(counted, "KeyError")
        ELSE LET lights == IF c.param_ind = -1 THEN Put(Mesh(c)[field], ind, <<>>)
                           ELSE Mesh(c)[field]
             IN  IF ind \notin DOMAIN lights THEN Raise(counted, "KeyError")
                 ELSE IF ParamRaises(c, params, line) THEN Raise(counted, "ValueError")
                 ELSE SetMesh(counted,
                              Put(Mesh(c), field,
                                  Put(lights, ind, WithParam(c, params, line, lights[ind]))))

read_interiorlight(c, line) ==
    read_numbered_light(c, line, "interior_light_ind", "interior_lights",
                        InteriorLightParams)

read_spotlight(c, line) ==
    read_numbered_light(c, line, "spotlight_ind", "spotlights", SpotlightParams)

\* [light_enh] and [light_enh_2]: the last light flare of the current mesh.
read_light_flare(c, line, params) ==
    IF ~HasMesh(c) THEN Raise(c, "KeyError")
    ELSE LET flares == IF c.param_ind = -1
                       THEN Append(Mesh(c).light_flares, [type |-> c.current_command[1]])
                       ELSE Mesh(c).light_flares
         IN  IF flares = <<>> THEN Raise(c, "IndexError")
             ELSE IF ParamRaises(c, params, line) THEN Raise(c, "ValueError")
             ELSE SetMesh(c, Put(Mesh(c), "light_flares",
                                 [flares EXCEPT ![Len(flares)] =
                                     WithParam(c, params, line, @)]))

read_light_enh(c, line) == read_light_flare(c, line, LightEnhParams)

read_light_enh_2(c, line) == read_light_flare(c, line, LightEnh2Params)

\* [matl] and [matl_change]: the first parameter opens a material of the
\* current mesh under its lower-case name.
read_matl(c, line) ==
    CASE c.param_ind = 0 ->
            IF ~HasMesh(c) THEN Raise(c, "KeyError")
            ELSE LET opened == [c EXCEPT !.current_mat = <<lower(line)>>]
                 IN  SetMatl(opened, [diffuse |-> <<line, c.i>>,
                                      type |-> c.current_command[1],
                                      cfg_data |-> <<>>])
      [] c.param_ind = 1 ->
            IF ~IsInt(line) THEN Raise(c, "ValueError")
            ELSE SetMatl(c, Put(Matl(c), "mat_id", int(line)))
      [] c.current_command = <<"[matl_change]">> /\ c.param_ind = 2 ->
            SetMatl(c, Put(Matl(c), "change_var", line))
      [] OTHER -> c

\* The lines of a section kept under its bracketed tag for the export.
Stashed(c, line, matl) ==
    IF c.param_ind = -1 THEN Put(matl, c.current_command[1], <<>>)
    ELSE Put(matl, c.current_command[1], Append(matl[c.current_command[1]], line))

\* One property set from the first parameter, as (line, i).
read_texture(c, line, key) ==
    IF c.param_ind = 0 THEN SetMatl(c, Put(Matl(c), key, <<line, c.i>>)) ELSE c

read_matl_alpha_of_mesh(c, line) ==
    IF c.param_ind = 0 /\ IsInt(line)
    THEN SetMesh(c, Put(Mesh(c), "matls",
                        [m \in DOMAIN Mesh(c).matls |->
                            Put(Mesh(c).matls[m], "alpha", <<int(line), c.i>>)]))
    ELSE c

read_matl_alpha_line_number(c, line) ==
    IF c.param_ind = 0 /\ IsInt(line)
    THEN SetMatl(c, Put(Matl(c), "alpha", <<int(line), c.i + 1>>))
    ELSE c

read_matl_alpha(c, line) ==
    IF c.param_ind = 0 /\ IsInt(line)
    THEN SetMatl(c, Put(Matl(c), "alpha", <<int(line), c.i>>))
    ELSE c

read_matl_envmap(c, line) ==
    CASE c.param_ind = 0 -> SetMatl(c, Put(Matl(c), "envmap_tex", line))
      [] c.param_ind = 1 ->
            IF ~IsFloat(line) THEN Raise(c, "ValueError")
            ELSE SetMatl(c, Put(Matl(c), "envmap", <<float(line), c.i>>))
      [] OTHER -> c

read_matl_bumpmap(c, line) ==
    CASE c.param_ind = 0 -> SetMatl(c, Put(Matl(c), "bumpmap", <<line, c.i>>))
      [] c.param_ind = 1 ->
            IF ~IsFloat(line) THEN Raise(c, "ValueError")
            ELSE SetMatl(c, Put(Matl(c), "bumpmap_strength", <<float(line), c.i>>))
      [] OTHER -> c

read_alphascale(c, line) ==
    LET matl == IF c.param_ind = 0 THEN Put(Matl(c), "alphascale", <<line, c.i>>)
                ELSE Matl(c)
    IN  SetMatl(c, Stashed(c, line, matl))

read_flag(c, line, key) ==
    LET matl == IF c.param_ind = -1 THEN Put(Matl(c), key, TRUE) ELSE Matl(c)
    IN  SetMatl(c, Stashed(c, line, matl))

read_matl_allcolor(c, line) ==
    IF c.param_ind = -1
    THEN SetMatl(c, Stashed(c, line, Put(Matl(c), "allcolor", <<>>)))
    ELSE IF c.param_ind < 14
    THEN IF ~IsFloat(line) THEN Raise(c, "ValueError")
         ELSE SetMatl(c, Stashed(c, line,
                                 Put(Matl(c), "allcolor",
                                     Append(Matl(c).allcolor, <<float(line), c.i>>))))
    ELSE SetMatl(c, Stashed(c, line, Matl(c)))

\* The sections of a material: skipped when no material is open.
read_material_section(c, line) ==
    LET command == c.current_command[1]
    IN  IF c.current_mat = None THEN c
        ELSE CASE command = "[matl_alpha]" -> read_matl_alpha(c, line)
               [] command = "[matl_transmap]" -> read_texture(c, line, "transmap")
               [] command = "[matl_envmap]" -> read_matl_envmap(c, line)
               [] command = "[matl_envmap_mask]" -> read_texture(c, line, "envmap_mask")
               [] command = "[matl_bumpmap]" -> read_matl_bumpmap(c, line)
               [] command = "[alphascale]" -> read_alphascale(c, line)
               [] command = "[matl_noZwrite]" -> read_flag(c, line, "noZwrite")
               [] command = "[matl_noZcheck]" -> read_flag(c, line, "noZcheck")
               [] command = "[matl_allcolor]" -> read_matl_allcolor(c, line)
               [] command = "[matl_nightmap]" -> read_texture(c, line, "nightmap")
               [] command = "[matl_lightmap]" -> read_texture(c, line, "lightmap")

Kept_apart(c, line, list) ==
    <<Append(list, <<IF c.param_ind = -1 THEN c.current_command[1] ELSE line>>)>>

\* The list of unparsed sections after the line is added to it; <<>> stands
\* for the IndexError of [-1] on an empty list.
Kept(c, line, list) ==
    IF c.param_ind = -1 THEN <<Append(list, <<c.current_command[1]>>)>>
    ELSE IF list = <<>> THEN <<>>
    ELSE <<[list EXCEPT ![Len(list)] = Append(@, line)]>>

\* A section read_cfg does not parse is kept in the innermost open scope.
read_unparsed(c, line) ==
    IF c.current_mat # None
    THEN LET kept == Kept(c, line, Matl(c).cfg_data)
         IN  IF kept = <<>> THEN Raise(c, "IndexError")
             ELSE SetMatl(c, Put(Matl(c), "cfg_data", kept[1]))
    ELSE IF c.current_mesh # None
    THEN LET kept == Kept(c, line, Mesh(c).cfg_data)
         IN  IF kept = <<>> THEN Raise(c, "IndexError")
             ELSE SetMesh(c, Put(Mesh(c), "cfg_data", kept[1]))
    ELSE IF c.current_command # None
    THEN LET kept == Kept(c, line, Bucket(c).cfg_data)
         IN  IF kept = <<>> THEN Raise(c, "IndexError")
             ELSE SetBucket(c, Put(Bucket(c), "cfg_data", kept[1]))
    ELSE c

\* The head of the loop body: a header line starts a command, any other
\* line is the command's next parameter.
next_line(c, line) ==
    IF IsHeader(line) THEN [c EXCEPT !.current_command = <<line>>, !.param_ind = -1]
    ELSE [c EXCEPT !.param_ind = @ + 1]

\* One iteration of the loop over the lines.
read_line(c, line) ==
    LET at == next_line(c, line)
        command == at.current_command
        read == CASE command = <<"[LOD]">> -> read_lod(at, line)
                  [] command = <<"[groups]">> -> read_groups(at, line)
                  [] command = <<"[friendlyname]">> -> read_friendlyname(at, line)
                  [] command = <<"[surface]">> -> read_surface(at, line)
                  [] command = <<"[mesh]">> -> read_mesh(at, line)
                  [] command = <<"[interiorlight]">> -> read_interiorlight(at, line)
                  [] command = <<"[spotlight]">> -> read_spotlight(at, line)
                  [] command = <<"[light_enh]">> -> read_light_enh(at, line)
                  [] command = <<"[light_enh_2]">> -> read_light_enh_2(at, line)
                  [] command \in {<<"[matl]">>, <<"[matl_change]">>} -> read_matl(at, line)
                  [] command # None /\ command[1] \in MaterialSections ->
                        read_material_section(at, line)
                  [] OTHER -> read_unparsed(at, line)
    IN  IF read.state = "raised" THEN read ELSE [read EXCEPT !.i = @ + 1]

\* ------------------------------------------------------------- the tree read_cfg returns

\* The materials of a tree, as <<LOD, mesh, material>>.
Materials(c) ==
    UNION {UNION {{<<lod, mesh, matl>> :
                      matl \in DOMAIN c.cfg_data[lod].meshes[mesh].matls} :
                  mesh \in DOMAIN c.cfg_data[lod].meshes} :
           lod \in DOMAIN c.cfg_data}

MaterialAt(c, p) == c.cfg_data[p[1]].meshes[p[2]].matls[p[3]]

\* The scopes of a tree, <<LOD>>, <<LOD, mesh>> and <<LOD, mesh, material>>,
\* and the list of unparsed sections of each.
ScopeIds(c) ==
    {<<lod>> : lod \in DOMAIN c.cfg_data}
    \cup UNION {{<<lod, mesh>> : mesh \in DOMAIN c.cfg_data[lod].meshes} :
                lod \in DOMAIN c.cfg_data}
    \cup Materials(c)

ScopeList(c, id) ==
    CASE Len(id) = 1 -> c.cfg_data[id[1]].cfg_data
      [] Len(id) = 2 -> c.cfg_data[id[1]].meshes[id[2]].cfg_data
      [] Len(id) = 3 -> MaterialAt(c, id).cfg_data

\* ------------------------------------------------------------- the CFG writer

\* The lines write_additional_cfg_props writes to f for one section: the
\* header, the joined lines ended by "\n" (one empty line when there are
\* none), and one more "\n" when the last line is not blank. The lines
\* read_cfg keeps are stripped on the right, so only "" strips to "".
write_prop_unterminated(prop) ==
    <<prop[1]>> \o (IF Len(prop) = 1 THEN <<"">> ELSE Tail(prop))

write_prop(prop) ==
    <<prop[1]>>
    \o (IF Len(prop) = 1 THEN <<"">> ELSE Tail(prop))
    \o (IF Len(prop) > 1 /\ prop[Len(prop)] # "" THEN <<"">> ELSE <<>>)

\* The lines write_additional_cfg_props writes for a dict: those of its
\* sections, in the order of the list.
write_additional_cfg_props(cfg_props) ==
    LET RECURSIVE write_props(_)
        write_props(props) ==
            IF props = <<>> THEN <<>>
            ELSE write_prop(Head(props)) \o write_props(Tail(props))
    IN  IF "cfg_data" \in DOMAIN cfg_props THEN write_props(cfg_props.cfg_data)
        ELSE <<>>

\* ------------------------------------------------------------- generate_materials, write_cfg_materials

\* The textures a material of the CFG file names, and the image load_image
\* returns for one: found holds the lower-case names that are files in the
\* texture folders (none of them with a .dds file beside it), and the image
\* is known by the name of its file.
Textures(m) ==
    {m[key][1] :
        key \in {"diffuse", "transmap", "envmap_mask", "bumpmap", "nightmap",
                 "lightmap"} \cap DOMAIN m}

load_image(texture_path, found) ==
    IF lower(texture_path) \in found THEN <<lower(texture_path)>> ELSE None

\* A Blender material as generate_materials makes it in Blender 2.80 and
\* later from the material m of the CFG file: the custom properties (props),
\* the images and values of the shader wrapper, which are taken to return
\* what was stored in them, and the exception that ended the call, if any.
\* The roughness and specular the O3D file's material gives (lines 552-554)
\* leave specular 0. A CFG file of the model has fewer than 14 [matl_allcolor]
\* lines, where line 664 or a later one raises.
generate_materials(m, found) ==
    LET diff_tex == load_image(m.diffuse[1], found)
        new == [props |-> <<>>, base_color_texture |-> diff_tex,
                alpha_texture |-> None, specular_texture |-> None,
                normalmap_texture |-> None, normalmap_strength |-> Number(1),
                emission_color_texture |-> None, emission_strength |-> Number(0),
                blend_method |-> "HASHED", roughness |-> None, specular |-> 0,
                error |-> ""]
        Image(mat, key, field) ==
            IF key \in DOMAIN m /\ load_image(m[key][1], found) # None
            THEN [mat EXCEPT ![field] = load_image(m[key][1], found)]
            ELSE mat
        alpha ==
            IF "alpha" \in DOMAIN m /\ m.alpha[1] > 0
            THEN [new EXCEPT !.alpha_texture = diff_tex,
                             !.blend_method = IF m.alpha[1] = 1 THEN "CLIP" ELSE "HASHED"]
            ELSE new
        transmap ==
            IF "transmap" \in DOMAIN m
            THEN Image([alpha EXCEPT !.specular_texture = diff_tex,
                                     !.blend_method =
                                         IF load_image(m.transmap[1], found) # None
                                         THEN "HASHED" ELSE @],
                       "transmap", "alpha_texture")
            ELSE alpha
        envmap ==
            IF "envmap" \in DOMAIN m
            THEN Image([transmap EXCEPT !.specular = m.envmap[1] * m.envmap[1],
                                        !.roughness = <<1>>],
                       "envmap_mask", "specular_texture")
            ELSE transmap
        bumpmap ==
            IF "bumpmap" \in DOMAIN m /\ load_image(m.bumpmap[1], found) # None
            THEN IF "bumpmap_strength" \notin DOMAIN m
                 THEN [envmap EXCEPT !.error = "KeyError"]
                 ELSE [Image(envmap, "bumpmap", "normalmap_texture")
                          EXCEPT !.normalmap_strength = m.bumpmap_strength[1]]
            ELSE envmap
        allcolor ==
            IF "allcolor" \in DOMAIN m /\ Len(m.allcolor) < 14
            THEN [bumpmap EXCEPT !.error = "IndexError"]
            ELSE bumpmap
        nightmap ==
            IF "nightmap" \in DOMAIN m /\ load_image(m.nightmap[1], found) # None
            THEN [Image(allcolor, "nightmap", "emission_color_texture")
                     EXCEPT !.emission_strength = 5]
            ELSE allcolor
        lightmap ==
            IF "lightmap" \in DOMAIN m /\ load_image(m.lightmap[1], found) # None
            THEN [Image(nightmap, "lightmap", "emission_color_texture")
                     EXCEPT !.emission_strength = 15]
            ELSE nightmap
        kept == {"envmap_tex", "cfg_data"}
                \cup (IF m.type = "[matl_change]" THEN {"change_var"} ELSE {})
        props == [key \in ({"type"} \cup kept) \cap DOMAIN m |-> m[key]]
    IN  IF diff_tex = None \/ "diffuse" \notin DOMAIN m THEN new
        ELSE IF bumpmap.error # "" THEN bumpmap
        ELSE IF allcolor.error # "" THEN allcolor
        ELSE IF m.type = "[matl_change]" /\ "change_var" \notin DOMAIN m
        THEN [lightmap EXCEPT !.props = [key \in {"type"} |-> m.type],
                              !.error = "KeyError"]
        ELSE [lightmap EXCEPT !.props = props]

\* The lines write_cfg_materials writes for the material in slot i of the
\* object, in Blender 2.80 and later. A roughness that generate_materials
\* took from the O3D file comes with specular 0, which writes no
\* [matl_envmap] whatever the roughness is.
write_cfg_materials(mat, i) ==
    LET str(x) ==   \* of a float, which counts tenths
            CASE x = 0 -> "0.0" [] x = 5 -> "0.5" [] x = 10 -> "1.0"
              [] x = 20 -> "2.0" [] x = -10 -> "-1.0"
        str_int(n) == CASE n = 0 -> "0" [] n = 1 -> "1" [] n = 2 -> "2"
        sqrt(x) ==   \* of a float that counts hundredths, in tenths
            CHOOSE r \in 0..x : r * r = x
        image == mat.base_color_texture
        header ==
            IF "type" \in DOMAIN mat.props /\ mat.props.type = "[matl_change]"
            THEN <<"[matl_change]", image[1], str_int(i), mat.props.change_var, "">>
            ELSE <<"[matl]", image[1], str_int(i), "">>
        alpha_mode ==
            IF mat.alpha_texture = None THEN 0
            ELSE IF mat.blend_method = "CLIP" THEN 1 ELSE 2
        transmap == mat.alpha_texture # None /\ mat.alpha_texture # image
        envmap == mat.roughness # None
        specular == sqrt(mat.specular)
        envmap_tex ==
            IF "envmap_tex" \in DOMAIN mat.props THEN mat.props.envmap_tex
            ELSE "envmap.bmp"
        emission_tex == mat.emission_color_texture
    IN  IF image = None THEN <<>>
        ELSE <<"----------">> \o header
             \o (IF alpha_mode > 0 THEN <<"[matl_alpha]", str_int(alpha_mode), "">>
                 ELSE <<>>)
             \o (IF transmap THEN <<"[matl_transmap]", mat.alpha_texture[1], "">>
                 ELSE <<>>)
             \o (IF envmap /\ specular > 0
                 THEN <<"[matl_envmap]", envmap_tex, str(specular), "">>
                      \o (IF ~transmap /\ mat.specular_texture # None
                          THEN <<"[matl_envmap_mask]", mat.specular_texture[1], "">>
                          ELSE <<>>)
                 ELSE <<>>)
             \o (IF mat.normalmap_texture # None
                 THEN <<"[matl_bumpmap]", mat.normalmap_texture[1],
                        str(mat.normalmap_strength), "">>
                 ELSE <<>>)
             \o (IF emission_tex = None THEN <<>>
                 ELSE IF mat.emission_strength > Number(1)
                 THEN <<"[matl_lightmap]", emission_tex[1], "">>
                 ELSE <<"[matl_nightmap]", emission_tex[1], "">>)
             \o write_additional_cfg_props(mat.props)

\* ------------------------------------------------------------- CFG files

MaxParams == 2

\* The sequences of at most n elements of a set.
UpTo(S, n) == UNION {[1..k -> S] : k \in 0..n}

\* Lines that are not section headers.
Params == {"1", "0.5", "Tex.BMP", "", "[]"}

\* The lines before the section: what is open when the section starts.
Scopes ==
    {<<>>,
     <<"">>,
     <<"[LOD]", "0.5">>,
     <<"[mesh]", "a.o3d">>,
     <<"[mesh]", "a.o3d", "[matl]", "Tex.BMP", "1">>,
     <<"[mesh]", "a.o3d", "[matl]", "Tex.BMP", "1", "[LOD]", "0.5">>}

\* The lines after the section.
Tails == {<<>>, <<"[mesh]", "b.o3d", "[matl]", "B.bmp", "1", "[matl_alpha]", "1">>}

\* The files: any section with at most MaxParams parameter lines, in every
\* scope.
CfgFiles ==
    {scope \o <<header>> \o params \o tail :
        scope \in Scopes, header \in Bracketed \ {"[]"},
        params \in UpTo(Params, MaxParams), tail \in Tails}

MaxBlocks == 3

\* Files that build a tree: a prelude, which is empty or opens two LODs with
\* meshes and materials of the same names, and then at most MaxBlocks
\* sections with their parameter lines.
TreeFiles ==
    LET Preludes ==
            {<<>>,
             <<"[LOD]", "1.0", "[mesh]", "a.o3d", "[matl]", "Tex.BMP", "1",
               "[matl_alpha]", "1", "[matl]", "B.bmp", "0",
               "[mesh]", "b.o3d", "[matl]", "Tex.BMP", "0",
               "[LOD]", "0.0", "[mesh]", "a.o3d", "[matl]", "Tex.BMP", "1">>}
        Blocks ==
            {<<"[LOD]", "1.0">>,
             <<"[mesh]", "a.o3d">>,
             <<"[mesh]", "b.o3d">>,
             <<"[matl]", "Tex.BMP", "1">>,
             <<"[matl_change]", "B.bmp", "0", "var">>,
             <<"[matl_alpha]", "2">>,
             <<"[matl_transmap]", "t.bmp">>,
             <<"[foo]", "x", "">>,
             <<"[foo]">>}
        RECURSIVE Concat(_)
        Concat(blocks) ==
            IF blocks = <<>> THEN <<>> ELSE Head(blocks) \o Concat(Tail(blocks))
    IN  {prelude \o Concat(blocks) :
            prelude \in Preludes, blocks \in UpTo(Blocks, MaxBlocks)}

\* Files with two LODs, 1.0 and 0.0 in either order, each followed by one
\* mesh and one material that has [matl_alpha] 1; the sections of a LOD are
\* separated by blank lines or by nothing.
ScenarioFiles ==
    LET Half(lod, mesh, texture, sep) ==
            <<"[LOD]", lod>> \o sep \o <<"[mesh]", mesh>> \o sep
            \o <<"[matl]", texture, "0">> \o sep \o <<"[matl_alpha]", "1">> \o sep
        Names == {"a.o3d", "b.o3d"} \X {"Tex.BMP", "B.bmp"} \X {<<>>, <<"">>}
    IN  {Half(lods[1], a[1], a[2], a[3]) \o Half(lods[2], b[1], b[2], b[3]) :
            lods \in {<<"1.0", "0.0">>, <<"0.0", "1.0">>}, a \in Names, b \in Names}

\* ------------------------------------------------------------- floats

\* A Python float is modelled as a binary floating-point number with a
\* significand of Precision bits and no bound on the exponent, written as
\* the fraction <<n, d>> in lowest terms, d a power of 2. Every operation
\* rounds its exact result to the nearest such number, ties to the even
\* significand.
Precision == 5

RECURSIVE Pow2(_)
Pow2(k) == IF k = 0 THEN 1 ELSE 2 * Pow2(k - 1)

\* The float nearest to n / d, for d > 0.
Fl(n, d) ==
    LET RECURSIVE Lowest(_, _)
        Lowest(a, b) ==
            IF a % 2 = 0 /\ b % 2 = 0 THEN Lowest(a \div 2, b \div 2) ELSE <<a, b>>
        RECURSIVE Round(_, _, _, _)
        Round(a, b, up, down) ==   \* a / b rounded to an integer, times up / down
            IF a >= b * Pow2(Precision) THEN Round(a, 2 * b, 2 * up, down)
            ELSE IF a < b * Pow2(Precision - 1) THEN Round(2 * a, b, up, 2 * down)
            ELSE LET q == a \div b
                     r == a % b
                     m == IF 2 * r > b \/ (2 * r = b /\ q % 2 = 1) THEN q + 1 ELSE q
                 IN  Lowest(m * up, down)
        Signed(x) == IF n < 0 THEN <<-x[1], x[2]>> ELSE x
    IN  IF n = 0 THEN <<0, 1>> ELSE Signed(Round(IF n < 0 THEN -n ELSE n, d, 1, 1))

\* x * y, x / y for y # 0, x + y and x - y, and float(i) of an int.
fmul(x, y) == Fl(x[1] * y[1], x[2] * y[2])

fdiv(x, y) ==
    LET sign == IF y[1] > 0 THEN 1 ELSE -1
    IN  Fl(sign * x[1] * y[2], sign * x[2] * y[1])

fadd(x, y) ==
    LET d == IF x[2] > y[2] THEN x[2] ELSE y[2]
    IN  Fl(x[1] * (d \div x[2]) + y[1] * (d \div y[2]), d)

fsub(x, y) == fadd(x, <<-y[1], y[2]>>)

\* x < y, and math.ceil(x) for x >= 0.
flt(x, y) == x[1] * y[2] < y[1] * x[2]

ceil(x) == (x[1] + x[2] - 1) \div x[2]

\* ------------------------------------------------------------- io_omsi_spline

\* math.pi / 2 and math.pi * 2.
HalfPi == Fl(355, 226)

TwoPi == Fl(710, 113)

\* The coefficients <<c, a, b>> of the height polynomial.
compute_spline_gradient_coeffs(s) ==
    LET hundred == Fl(100, 1)
        grad == fdiv(fsub(s.end_grad, s.start_grad), hundred)
        rest == fsub(s.delta_height, fmul(fdiv(s.start_grad, hundred), s.length))
        b == fdiv(s.start_grad, hundred)
    IN  IF s.use_delta_height
        THEN <<fdiv(fsub(fmul(grad, s.length), fmul(Fl(2, 1), rest)),
                    fmul(fmul(s.length, s.length), s.length)),
               fdiv(fadd(fmul(<<-grad[1], grad[2]>>, s.length), fmul(Fl(3, 1), rest)),
                    fmul(s.length, s.length)),
               b>>
        ELSE <<Fl(0, 1), fdiv(grad, fmul(Fl(2, 1), s.length)), b>>

\* min of two floats, and max(n, 1) of an int.
fmin(x, y) == IF flt(y, x) THEN y ELSE x

max1(n) == IF n < 1 THEN 1 ELSE n

\* [i * dx for i in range(n_segments + 1)] with dx = length / n_segments.
segment_steps(length, n_segments) ==
    [i \in 1..(n_segments + 1) |-> fmul(Fl(i - 1, 1), fdiv(length, Fl(n_segments, 1)))]

\* Lines 167-174: n_segments and dr of an arc. dr_b stands for the angle
\* line 171 computes with math.acos.
arc_segments(length, radius, spline_tess_dist, dr_b) ==
    LET revs == fmin(fdiv(length, radius), TwoPi)
        segments(dr) == max1(ceil(fdiv(revs, dr)))
        step(n_segments) == <<n_segments, fdiv(revs, Fl(n_segments, 1))>>
    IN  step(segments(fmin(fdiv(spline_tess_dist, radius), dr_b)))

\* Lines 192-195; arc is <<>> where dr is infinite, and the term is then
\* not the minimum.
merge_distance(length, n_grad_samples, spline_tess_dist, radius, arc) ==
    LET grad_dist ==
            fdiv(fdiv(length, IF n_grad_samples = 0 THEN Fl(1, 10) ELSE Fl(n_grad_samples, 1)),
                 Fl(3, 1))
        arc_dist ==
            IF arc = <<>> THEN spline_tess_dist
            ELSE fdiv(fmul(arc[2], IF flt(radius, Fl(1, 100)) THEN Fl(1, 100) ELSE radius),
                      Fl(2, 1))
    IN  fmin(fmin(fmin(grad_dist, spline_tess_dist), arc_dist), fmul(length, Fl(9, 10)))

\* samples.sort()
RECURSIVE sort(_)
sort(samples) ==
    LET RECURSIVE Insert(_, _)
        Insert(x, sorted) ==
            IF sorted = <<>> \/ ~flt(Head(sorted), x) THEN <<x>> \o sorted
            ELSE <<Head(sorted)>> \o Insert(x, Tail(sorted))
    IN  IF samples = <<>> THEN <<>> ELSE Insert(Head(samples), sort(Tail(samples)))

\* Lines 196-207: the weld of the sorted samples.
weld(samples, merge_dist, length) ==
    LET RECURSIVE Weld(_, _, _)
        Weld(samples_weighted, last_s, i) ==
            IF i > Len(samples_weighted) - 1 THEN samples_weighted
            ELSE IF flt(fsub(samples_weighted[i][1], samples_weighted[last_s][1]), merge_dist)
            THEN LET sl == samples_weighted[last_s]
                     merged == <<fdiv(fadd(fmul(sl[1], Fl(sl[2], 1)), samples_weighted[i][1]),
                                      Fl(sl[2] + 1, 1)),
                                 sl[2] + 1>>
                 IN  Weld([samples_weighted EXCEPT ![last_s] = merged, ![i] = <<Fl(0, 1), 0>>],
                          last_s, i + 1)
            ELSE Weld(samples_weighted, i, i + 1)
        fixed(unmerged) ==
            [i \in DOMAIN unmerged |->
                IF i = Len(unmerged) THEN length
                ELSE IF i = 1 THEN <<0, 1>> ELSE unmerged[i][1]]
    IN  fixed(SelectSeq(Weld([i \in DOMAIN samples |-> <<samples[i], 1>>], 1, 2),
                        LAMBDA sw : sw[2] > 0))

\* Line 122: the loop would take too long, and lines 125-127 return.
too_long(spline_curve_sag) == flt(<<10000, 1>>, fdiv(HalfPi, spline_curve_sag))

\* Line 159: z += spline_curve_sag * 10, with a variant that leaves z alone.
next_z_unchanged(z, spline_curve_sag) == z

next_z(z, spline_curve_sag) == fadd(z, fmul(spline_curve_sag, Fl(10, 1)))

\* generate_tesselation_points: what the call returns or raises. The loop of
\* lines 129-159 inverts the curvature with math.tan and math.sqrt; grad
\* stands for the samples it appends, each of them in 0..length. With
\* use_delta_height and c = 0 the loop's first pass divides by _3c = 0.
generate_tesselation_points(s, spline_tess_dist, spline_curve_sag, grad, dr_b) ==
    LET length == s.length
        coeffs == compute_spline_gradient_coeffs(s)
        graded == s.start_grad # s.end_grad \/ s.use_delta_height
        curved == graded /\ (coeffs[2][1] # 0 \/ coeffs[1][1] # 0)
        gradient == IF curved THEN grad ELSE <<>>
        radius == IF s.radius[1] < 0 THEN <<-s.radius[1], s.radius[2]>> ELSE s.radius
        welded(arc) ==
            LET samples ==
                    gradient \o
                    (IF arc # <<>>
                     THEN [i \in 1..(arc[1] + 1) |-> fmul(fmul(Fl(i - 1, 1), arc[2]), radius)]
                     ELSE segment_steps(length, max1(ceil(fdiv(length, spline_tess_dist)))))
            IN  IF Len(samples) > 1
                THEN weld(sort(samples),
                          merge_distance(length, Len(gradient), spline_tess_dist, radius, arc),
                          length)
                ELSE samples
    IN  IF (graded /\ length[1] = 0) \/ spline_tess_dist[1] = 0
        THEN [state |-> "raised", error |-> "ZeroDivisionError"]
        ELSE IF curved /\ too_long(spline_curve_sag)
        THEN [state |-> "returned",
              samples |-> segment_steps(length,
                              Min(max1(ceil(fdiv(length, spline_tess_dist))), 100))]
        ELSE IF curved /\ s.use_delta_height /\ fmul(coeffs[1], Fl(3, 1))[1] = 0
        THEN [state |-> "raised", error |-> "ZeroDivisionError"]
        ELSE [state |-> "returned",
              samples |-> welded(IF radius[1] > 0
                                 THEN arc_segments(length, radius, spline_tess_dist, dr_b)
                                 ELSE <<>>)]

\* The two triangles of the grid cell between the points this, this + 1 of
\* one sample and next, next + 1 of the following one (lines 332-349), and
\* a variant that winds every cell as an unmirrored spline's.
cell_unmirrored(mirror, this, next) ==
    << <<this + 1, next + 1, this>>, <<next + 1, next, this>> >>

cell(mirror, this, next) ==
    IF mirror
    THEN << <<this, next + 1, this + 1>>, <<this, next, next + 1>> >>
    ELSE << <<this + 1, next + 1, this>>, <<next + 1, next, this>> >>

\* v_count after a strip of m_verts vertices (line 354), and a variant that
\* leaves it where it was.
next_v_count_kept(v_count, m_verts) == v_count

next_v_count(v_count, m_verts) == v_count + m_verts

\* Lines 290-356 of generate_mesh: one strip of vertices per profile part, a
\* row of it per sample; it raises what generate_tesselation_points raised.
\* A vertex is <<part, sample, point>>, a texture coordinate <<u, sample>>:
\* the positions evaluate_spline computes with math.atan, math.cos and
\* math.sin are not modelled. evaluated counts the calls of evaluate_spline.
\* A profile point is <<x, z, u, v, mat_id>>.
mesh_strips(s, sli, segment_samples) ==
    LET n == IF segment_samples.state = "returned" THEN Len(segment_samples.samples) ELSE 0
        RECURSIVE strips(_, _)
        strips(k, v_count) ==
            IF k > Len(sli[1])
            THEN [verts |-> <<>>, tris |-> <<>>, mat_ids |-> <<>>, uvs |-> <<>>]
            ELSE LET profile_part == sli[1][k]
                     profile_len == Len(profile_part)
                     m_verts ==
                        [j \in 1..(n * profile_len) |->
                            <<k, ((j - 1) \div profile_len) + 1, ((j - 1) % profile_len) + 1>>]
                     n_tris == IF profile_len = 0 THEN 0 ELSE (n - 1) * (profile_len - 1) * 2
                     tri(t) ==
                        LET x == ((t - 1) \div 2) \div (profile_len - 1)
                            y == ((t - 1) \div 2) % (profile_len - 1)
                            this == y + v_count + x * profile_len
                            next == y + v_count + (x + 1) * profile_len
                        IN  cell(s.mirror, this, next)[2 - (t % 2)]
                     rest == strips(k + 1, next_v_count(v_count, n * profile_len))
                 IN  [verts |-> m_verts \o rest.verts,
                      tris |-> [t \in 1..n_tris |-> tri(t)] \o rest.tris,
                      mat_ids |-> [t \in 1..n_tris |-> profile_part[1][5]] \o rest.mat_ids,
                      uvs |-> [j \in 1..(n * profile_len) |->
                                  <<profile_part[((j - 1) % profile_len) + 1][3],
                                    ((j - 1) \div profile_len) + 1>>] \o rest.uvs]
    IN  IF segment_samples.state = "raised" THEN segment_samples
        ELSE IF s.length[1] = 0 /\ n > 0 /\ Len(sli[1]) > 0
        THEN [state |-> "raised", error |-> "ZeroDivisionError"]   \* y / self.length
        ELSE [state |-> "returned", evaluated |-> n * Len(sli[1])] @@ strips(1, 0)

\* generate_mesh without the test of lines 287-288.
generate_mesh_any_length(s, sli_cache, spline_tess_dist, spline_curve_sag, grad, dr_b) ==
    IF s.sli_path \notin DOMAIN sli_cache THEN [state |-> "raised", error |-> "KeyError"]
    ELSE mesh_strips(s, sli_cache[s.sli_path],
                     generate_tesselation_points(s, spline_tess_dist, spline_curve_sag,
                                                 grad, dr_b))

\* generate_mesh: what the call returns or raises.
generate_mesh(s, sli_cache, spline_tess_dist, spline_curve_sag, grad, dr_b) ==
    IF s.sli_path \notin DOMAIN sli_cache THEN [state |-> "raised", error |-> "KeyError"]
    ELSE IF s.length[1] = 0
    THEN [state |-> "returned", evaluated |-> 0,
          verts |-> <<>>, tris |-> <<>>, mat_ids |-> <<>>, uvs |-> <<>>]
    ELSE mesh_strips(s, sli_cache[s.sli_path],
                     generate_tesselation_points(s, spline_tess_dist, spline_curve_sag,
                                                 grad, dr_b))

\* ------------------------------------------------------------- splines

MaxSegments == 16
MaxGrad == 2

\* Profiles as load_spline returns them: sli[0] is the list of
\* profile parts, a part the list of its points <<x, z, u, v, mat_id>>.
SliCache ==
    LET lane == << <<-3, 0, 0, 1, 0>>, <<3, 0, 1, 1, 0>> >>
        kerb == << <<3, 0, 0, 1, 1>>, <<4, 1, 1, 1, 1>>, <<5, 1, 2, 1, 1>> >>
        post == << <<0, 0, 0, 1, 2>> >>
    IN  [path \in {"road.sli", "odd.sli"} |->
            IF path = "road.sli" THEN << <<lane, kerb>> >> ELSE << << <<>>, post>> >>]

Lengths == {Fl(0, 1), Fl(3, 8), Fl(23, 8), Fl(4, 1), Fl(5, 1), Fl(11, 1), Fl(25, 1)}

TessDists == {Fl(1, 4), Fl(5, 8), Fl(11, 8), Fl(2, 1), Fl(10, 1)}

\* Straight and level, an arc to either side, a gradient change, and a
\* height difference that is level, cubic, and quadratic for length 4.
Shapes ==
    {[radius |-> Fl(r, 1), start_grad |-> Fl(0, 1), end_grad |-> Fl(0, 1),
      use_delta_height |-> FALSE, delta_height |-> Fl(0, 1)] : r \in {0, 50, -50}}
    \cup {[radius |-> Fl(0, 1), start_grad |-> Fl(0, 1), end_grad |-> Fl(2, 1),
           use_delta_height |-> FALSE, delta_height |-> Fl(0, 1)]}
    \cup {[radius |-> Fl(0, 1), start_grad |-> Fl(0, 1), end_grad |-> Fl(g, 1),
           use_delta_height |-> TRUE, delta_height |-> Fl(dh, 1)] :
              <<g, dh>> \in {<<0, 0>>, <<0, 1>>, <<100, 2>>}}

Splines ==
    {shape @@ [length |-> length, mirror |-> mirror, sli_path |-> sli_path] :
        shape \in Shapes, length \in Lengths, mirror \in BOOLEAN,
        sli_path \in {"road.sli", "odd.sli", "missing.sli"}}

\* The calls of generate_mesh: the spline and the arguments.
SplineCalls ==
    {call \in [self : Splines, sli_cache : {SliCache}, spline_tess_dist : TessDists,
               spline_curve_sag : {Fl(1, 128), Fl(1, 16384)}] :
        ceil(fdiv(call.self.length, call.spline_tess_dist)) <= MaxSegments}

\* What the loop of lines 129-159 may append when line 110 lets it run: up
\* to MaxGrad points of 0..length.
GradSamples(s) ==
    LET points == {fmul(s.length, Fl(j, 2)) : j \in 0..2}
    IN  IF s.start_grad # s.end_grad \/ s.use_delta_height
        THEN {<<>>} \cup UNION {[1..n -> points] : n \in 1..MaxGrad}
        ELSE {<<>>}

\* The angle of line 171 when the spline has a radius: the ends of the
\* range the line clamps it to.
SagAngles(s) == IF s.radius[1] # 0 THEN {Fl(23, 256), Fl(3, 2)} ELSE {Fl(3, 2)}

\* The calls whose curvature loop is followed pass by pass: splines with a
\* gradient change or a height difference, and a sag below, near and above
\* the limit of line 122.
LoopCalls ==
    {call \in SplineCalls :
        /\ call.self.radius[1] = 0
        /\ call.self.length \in {Fl(4, 1), Fl(25, 1)}
        /\ ~call.self.mirror
        /\ call.self.sli_path = "road.sli"}
    \cup
    {call \in [self : {t \in Splines : /\ t.start_grad # t.end_grad
                                       /\ t.length \in {Fl(4, 1), Fl(25, 1)}
                                       /\ ~t.mirror
                                       /\ t.sli_path = "road.sli"},
               sli_cache : {SliCache},
               spline_tess_dist : {Fl(1, 8), Fl(10, 1)},
               spline_curve_sag : {Fl(1, 8192), Fl(1, 32), Fl(1, 8), Fl(1, 1)}] :
        \/ too_long(call.spline_curve_sag)
        \/ ceil(fdiv(call.self.length, call.spline_tess_dist)) <= MaxSegments}

\* ------------------------------------------------------------- io_omsi_tile

\* A number is a fraction <<n, d>> in lowest terms with d > 0; the tile
\* arithmetic is exact.
RECURSIVE GCD(_, _)
GCD(a, b) == IF b = 0 THEN a ELSE GCD(b, a % b)

Q(n, d) ==
    LET lowest(g) == <<n \div g, d \div g>>
    IN  lowest(GCD(IF n < 0 THEN -n ELSE n, d))

qadd(x, y) ==
    LET sum(g) == Q(x[1] * (y[2] \div g) + y[1] * (x[2] \div g), (x[2] \div g) * y[2])
    IN  sum(GCD(x[2], y[2]))

qsub(x, y) == qadd(x, <<-y[1], y[2]>>)

qmul(x, y) ==
    LET product(g, h) == Q((x[1] \div g) * (y[1] \div h), (x[2] \div h) * (y[2] \div g))
    IN  product(GCD(IF x[1] < 0 THEN -x[1] ELSE x[1], y[2]),
                GCD(IF y[1] < 0 THEN -y[1] ELSE y[1], x[2]))

\* math.floor(x); math.ceil is ceil.
floor(x) == x[1] \div x[2]

terr_dim == 61

\* import_terrain_mesh: the vertices and faces of the mesh and the heights
\* it returns, from the heights of the .terrain file (rows of terr_dim
\* floats). The texture coordinates and the materials are not modelled.
import_terrain_mesh(heights) ==
    [verts |-> [i \in 1..(terr_dim * terr_dim) |->
                   <<((i - 1) % terr_dim) * 5, ((i - 1) \div terr_dim) * 5,
                     heights[(i - 1) \div terr_dim][(i - 1) % terr_dim]>>],
     faces |-> [i \in 1..((terr_dim - 1) * (terr_dim - 1)) |->
                   LET x == (i - 1) \div (terr_dim - 1)
                       y == (i - 1) % (terr_dim - 1)
                   IN  <<x * terr_dim + y, x * terr_dim + y + 1,
                         (x + 1) * terr_dim + y + 1, (x + 1) * terr_dim + y>>],
     heights |-> heights]

lerp(a, b, t) == qadd(qmul(a, t), qmul(b, qsub(<<1, 1>>, t)))

\* clamp_tile, and a variant that clamps nothing.
clamp_tile_unclamped(x, dim) == x

clamp_tile(x, dim) ==
    LET min == IF x < dim - 1 THEN x ELSE dim - 1
    IN  IF min > 0 THEN min ELSE 0

\* get_interpolated_height: the value returned and the rows and columns
\* indexed, or IndexError. terr_heights is a function on 0..dim-1 of
\* functions on 0..dim-1; a list takes the indices -dim..dim-1.
get_interpolated_height(terr_heights, x, y) ==
    LET dim == Cardinality(DOMAIN terr_heights)
        scaled(v) == Q(v[1] * dim, v[2] * 300)
        bilinear(xs, ys) ==
            LET x_low == clamp_tile(floor(xs), dim)
                x_high == clamp_tile(ceil(xs), dim)
                y_low == clamp_tile(floor(ys), dim)
                y_high == clamp_tile(ceil(ys), dim)
                x_frac == qsub(xs, <<floor(xs), 1>>)
                y_frac == qsub(ys, <<floor(ys), 1>>)
                at(row, col) == <<terr_heights[row % dim][col % dim], 1>>
                rows(il, ih) ==
                    [state |-> "returned", value |-> lerp(il, ih, y_frac),
                     rows |-> {y_low, y_high}, cols |-> {x_low, x_high}]
            IN  IF {x_low, x_high, y_low, y_high} \subseteq -dim..(dim - 1)
                THEN rows(lerp(at(y_low, x_low), at(y_high, x_low), x_frac),
                          lerp(at(y_low, x_high), at(y_high, x_high), x_frac))
                ELSE [state |-> "raised", error |-> "IndexError"]
    IN  bilinear(scaled(x), scaled(y))

\* The heights of three .terrain files: a slope, ridges and a plain.
HeightMaps ==
    {[r \in 0..(terr_dim - 1) |-> [c \in 0..(terr_dim - 1) |-> r + 2 * c]],
     [r \in 0..(terr_dim - 1) |-> [c \in 0..(terr_dim - 1) |-> (r * c) % 7]],
     [r \in 0..(terr_dim - 1) |-> [c \in 0..(terr_dim - 1) |-> 4]]}

\* Coordinates on the grid, between its points, and off the tile.
Coordinates ==
    {<<-300, 1>>, <<-7, 1>>, <<0, 1>>, <<5, 2>>, <<5, 1>>, <<150, 1>>, <<295, 1>>,
     <<599, 2>>, <<300, 1>>, <<301, 1>>, <<1000, 1>>}

\* ------------------------------------------------------------- io_omsi_tile, the objects

\* The dictionary import_map_objects works on in a tile: the one do_import
\* made before its loop over the tiles, which import_tile hands on; and a
\* variant that hands on nothing, where import_map_objects starts from {}.
import_tile_loaded_objs_none(loaded_objs_cache) == <<>>

import_tile_loaded_objs(loaded_objs_cache) == loaded_objs_cache

\* A dictionary with one more key; dictionaries are functions on their keys.
SetItem(dict, key, value) ==
    [k \in DOMAIN dict \cup {key} |-> IF k = key THEN value ELSE dict[k]]

\* The length of the one spline of the tiles.
spline_length == Fl(4, 1)

\* The objects parse_map_data reads from a map file: [object] entries and
\* [splineAttachement] entries.
MapObject(path) == [cfg_type |-> "object", path |-> path]

SplineAttachement(path, z, rep_distance, rep_range) ==
    [cfg_type |-> "splineAttachement", path |-> path, pos_z |-> z,
     rep_distance |-> rep_distance, rep_range |-> rep_range]

Paths == {"lamp.sco", "tree.sco", "sign.sco"}

MapObjects ==
    {MapObject("lamp.sco"), MapObject("tree.sco"),
     SplineAttachement("lamp.sco", Fl(1, 1), Fl(2, 1), Fl(5, 1)),
     SplineAttachement("sign.sco", Fl(1, 2), Fl(3, 4), Fl(2, 1)),
     SplineAttachement("sign.sco", Fl(-1, 1), Fl(1, 1), Fl(5, 1)),
     SplineAttachement("tree.sco", Fl(5, 1), Fl(1, 1), Fl(5, 1)),
     SplineAttachement("tree.sco", Fl(1, 1), Fl(0, 1), Fl(0, 1)),
     SplineAttachement("tree.sco", Fl(1, 1), Fl(0, 1), Fl(5, 1)),
     SplineAttachement("sign.sco", Fl(1, 1), Fl(-1, 1), Fl(5, 1))}

\* The [map] entries of a global.cfg: a tile within the load radius with up
\* to two objects, or a tile beyond it.
MapFiles ==
    {<<>>} \cup {<<a>> : a \in MapObjects} \cup {<<a, b>> : a, b \in MapObjects}

Maps ==
    {[near |-> TRUE, objs |-> objs] : objs \in MapFiles}
        \cup {[near |-> FALSE, objs |-> <<MapObject("lamp.sco")>>]}

GlobalCfgs == {<<m>> : m \in Maps} \cup {<<m, n>> : m, n \in Maps}

\* ------------------------------------------------------------- state

VARIABLES
    args,          \* the arguments of the export_o3d call
    o3d_matrix,    \* do_export's matrix before it is transposed and flattened
    file,          \* the bytes export_o3d has written so far
    marks,         \* <<tag, offset>> of every section header written, in order
    packed_bytes,  \* the buffer handed to import_o3d
    pc,            \* the statement the run is at
    imp,           \* import_o3d's locals
    nt,            \* what a direct import_triangle call returned
    lines,         \* the lines of the CFG file read_cfg is given
    cfg,           \* read_cfg's locals
    cfg_props,     \* the dict the CFG writer is given, when it was called
    written,       \* the lines the CFG writer has written to f, when it has
    spline,        \* a Spline object, its profile and the tessellation settings
    gen,           \* what a call on the spline has returned or raised
    terrain,       \* what import_terrain_mesh returned, when it was called
    query,         \* a get_interpolated_height call and what it returned or raised
    tile           \* the import of the objects of the tiles of a map

o3d_vars == <<args, o3d_matrix, file, marks, packed_bytes, pc, imp, nt>>

writer_vars == <<cfg_props, written>>

cfg_vars == <<lines, cfg, writer_vars>>

spline_vars == <<spline, gen>>

tile_vars == <<terrain, query, tile>>

vars == <<o3d_vars, cfg_vars, spline_vars, tile_vars>>

\* import_o3d's locals before the header is read.
Locals ==
    [header |-> <<>>, off |-> 3, l_header |-> FALSE, encrypted |-> FALSE,
     bonus_header |-> <<0, <<0, 0>>>>,
     vertex_list |-> <<>>, triangle_list |-> <<>>, material_list |-> <<>>,
     bone_list |-> <<>>, transform |-> Identity,
     read |-> <<>>,   \* the section tags the loop has dispatched on, in order
     exit |-> ""]     \* how the loop was left: "eof", "break" or "error"

\* No read_cfg call is under way.
CfgIdle ==
    /\ lines = <<>>
    /\ cfg = [CfgLocals EXCEPT !.state = "idle"]
    /\ cfg_props = None
    /\ written = None

\* No call on a spline is under way.
SplineIdle ==
    /\ spline = <<>>
    /\ gen = [state |-> "idle"]

\* No tile is being imported.
TileIdle ==
    /\ terrain = <<>>
    /\ query = <<>>
    /\ tile = [state |-> "idle"]

\* No export_o3d or import_o3d call is under way.
O3dIdle ==
    /\ args = <<>>
    /\ o3d_matrix = Identity
    /\ file = <<>>
    /\ marks = <<>>
    /\ packed_bytes = <<>>
    /\ pc = "idle"
    /\ imp = Locals
    /\ nt = <<>>

InitWith(flagSet, matrices) ==
    /\ \E n \in Sizes, m \in matrices, v \in Versions, f \in flagSet :
          /\ o3d_matrix = m
          /\ args = Arguments(n, m, v, f)
    /\ file = <<>>
    /\ marks = <<>>
    /\ packed_bytes = <<>>
    /\ pc = "export_header"
    /\ imp = Locals
    /\ nt = <<>>
    /\ CfgIdle
    /\ SplineIdle
    /\ TileIdle

Init == InitWith(Flags, {Identity, Skewed})

InitFile == InitWith(MeshFlags, {Identity})

InitCfg ==
    /\ lines \in CfgFiles
    /\ cfg = CfgLocals
    /\ cfg_props = None
    /\ written = None
    /\ O3dIdle
    /\ SplineIdle
    /\ TileIdle

InitTree ==
    /\ lines \in TreeFiles \cup CfgFiles \cup ScenarioFiles
    /\ cfg = CfgLocals
    /\ cfg_props = None
    /\ written = None
    /\ O3dIdle
    /\ SplineIdle
    /\ TileIdle

\* ------------------------------------------------------------- export_o3d

Write(bytes, next) ==
    /\ file' = file \o bytes
    /\ marks' = IF bytes = <<>> \/ pc = "export_header" THEN marks
                ELSE Append(marks, <<bytes[1], Len(file)>>)
    /\ pc' = next
    /\ UNCHANGED <<args, o3d_matrix, packed_bytes, imp, nt, cfg_vars, spline_vars, tile_vars>>

ExportHeader ==
    /\ pc = "export_header"
    /\ Write(export_header(args.version, args.encrypted, args.encryption_key,
                           args.long_triangle_indices, args.alt_encryption_seed),
             "export_vertex_list")

ExportVertexList ==
    /\ pc = "export_vertex_list"
    /\ Write(export_vertex_list(args.vertex_list, args.encrypted, args.encryption_key,
                                args.version > 3, args.alt_encryption_seed),
             "export_triangle_list")

ExportTriangleList ==
    /\ pc = "export_triangle_list"
    /\ Write(export_triangle_list(args.triangle_list, args.long_triangle_indices,
                                  args.version > 3, args.invert_triangle_winding),
             "export_material_list")

ExportMaterialList ==
    /\ pc = "export_material_list"
    /\ Write(export_material_list(args.material_list, args.version > 3), "export_bone_list")

ExportBoneList ==
    /\ pc = "export_bone_list"
    /\ Write(export_bone_list(args.bone_list, args.version > 3, args.long_triangle_indices),
             "export_transform")

ExportTransform ==
    /\ pc = "export_transform"
    /\ Write(export_transform(args.transform), "exported")

Export ==
    \/ ExportHeader
    \/ ExportVertexList
    \/ ExportTriangleList
    \/ ExportMaterialList
    \/ ExportBoneList
    \/ ExportTransform

\* ------------------------------------------------------------- load_o3d

\* load_o3d hands import_o3d whatever bytes the file holds: here the file as
\* written, a proper prefix of it, or the file with one byte zeroed.
Load ==
    /\ pc = "exported"
    /\ packed_bytes' = file
    /\ pc' = "import_header"
    /\ UNCHANGED <<args, o3d_matrix, file, marks, imp, nt, cfg_vars, spline_vars, tile_vars>>

LoadPrefix ==
    /\ pc = "exported"
    /\ \E k \in 0..(Len(file) - 1) : packed_bytes' = SubSeq(file, 1, k)
    /\ pc' = "import_header"
    /\ UNCHANGED <<args, o3d_matrix, file, marks, imp, nt, cfg_vars, spline_vars, tile_vars>>

LoadDamaged ==
    /\ pc = "exported"
    /\ \E k \in 1..Len(file) : file[k] # 0 /\ packed_bytes' = [file EXCEPT ![k] = 0]
    /\ pc' = "import_header"
    /\ UNCHANGED <<args, o3d_matrix, file, marks, imp, nt, cfg_vars, spline_vars, tile_vars>>

\* ------------------------------------------------------------- import_o3d

\* The header: three bytes, and behind a good magic with a version above 3 the
\* options byte and the key. A bad magic is logged and reading goes on.
import_header(buff, l) ==
    IF ~Fits(buff, 0, 3) THEN [l EXCEPT !.exit = "error"]
    ELSE LET header == SubSeq(buff, 1, 3)
         IN  IF header[1] = 132 /\ header[2] = 25 /\ header[3] > 3
             THEN IF ~Fits(buff, 3, 5) THEN [l EXCEPT !.header = header, !.exit = "error"]
                  ELSE [l EXCEPT !.header = header,
                                 !.bonus_header = <<buff[4], UnpackKey(buff, 4)>>,
                                 !.encrypted = (UnpackKey(buff, 4) # <<65535, 65535>>),
                                 !.off = 8,
                                 !.l_header = TRUE]
             ELSE [l EXCEPT !.header = header]

\* bonus_header[0] & 1 == 1 and bonus_header[0] & 2 == 2.
LongIndices(l) == l.bonus_header[1] % 2 = 1

AltSeed(l) == (l.bonus_header[1] \div 2) % 2 = 1

\* One list or transform section read into the local named field.
Store(l, field, r) ==
    IF r.ok THEN [l EXCEPT ![field] = r.val, !.off = r.offset]
    ELSE [l EXCEPT !.exit = "error"]

unexpected_section_raises(l) == [l EXCEPT !.exit = "error"]

\* The else branch of the section dispatch: log, and break out of the loop.
unexpected_section(l) == [l EXCEPT !.exit = "break"]

\* One turn of the section loop, the tag byte at l.off already in bounds.
read_section(buff, l) ==
    LET section == buff[l.off + 1]
        at == [l EXCEPT !.off = @ + 1, !.read = Append(@, section)]
    IN  CASE section = 23 ->
               Store(at, "vertex_list",
                     import_vertex_list(buff, at.off, l.l_header, l.encrypted,
                                        AltSeed(l), l.bonus_header[2]))
          [] section = 73 ->
               Store(at, "triangle_list",
                     import_triangle_list(buff, at.off, l.l_header, LongIndices(l)))
          [] section = 38 ->
               Store(at, "material_list", import_material_list(buff, at.off, l.l_header))
          [] section = 84 ->
               Store(at, "bone_list",
                     import_bone_list(buff, at.off, l.l_header, LongIndices(l)))
          [] section = 121 ->
               Store(at, "transform", import_transform(buff, at.off))
          [] OTHER -> unexpected_section(at)

Step(l) ==
    /\ imp' = l
    /\ pc' = CASE l.exit = "" -> "import_loop"
               [] l.exit = "error" -> "raised"
               [] OTHER -> "returned"
    /\ UNCHANGED <<args, o3d_matrix, file, marks, packed_bytes, nt, cfg_vars, spline_vars, tile_vars>>

ImportHeader ==
    /\ pc = "import_header"
    /\ Step(import_header(packed_bytes, imp))

\* while off < len(packed_bytes) - 1
InLoop == pc = "import_loop" /\ imp.off < Len(packed_bytes) - 1

ImportVertexList ==
    /\ InLoop
    /\ packed_bytes[imp.off + 1] = 23
    /\ Step(read_section(packed_bytes, imp))

ImportTriangleList ==
    /\ InLoop
    /\ packed_bytes[imp.off + 1] = 73
    /\ Step(read_section(packed_bytes, imp))

ImportMaterialList ==
    /\ InLoop
    /\ packed_bytes[imp.off + 1] = 38
    /\ Step(read_section(packed_bytes, imp))

ImportBoneList ==
    /\ InLoop
    /\ packed_bytes[imp.off + 1] = 84
    /\ Step(read_section(packed_bytes, imp))

ImportTransform ==
    /\ InLoop
    /\ packed_bytes[imp.off + 1] = 121
    /\ Step(read_section(packed_bytes, imp))

ImportUnexpected ==
    /\ InLoop
    /\ packed_bytes[imp.off + 1] \notin {23, 73, 38, 84, 121}
    /\ Step(read_section(packed_bytes, imp))

ImportReturn ==
    /\ pc = "import_loop"
    /\ ~(imp.off < Len(packed_bytes) - 1)
    /\ Step([imp EXCEPT !.exit = "eof"])

Import ==
    \/ ImportHeader
    \/ ImportVertexList
    \/ ImportTriangleList
    \/ ImportMaterialList
    \/ ImportBoneList
    \/ ImportTransform
    \/ ImportUnexpected
    \/ ImportReturn

\* ------------------------------------------------------------- import_triangle

\* The offset in the file of the k-th record of the triangle section.
TriangleAt(k) ==
    LET start == (CHOOSE j \in 1..Len(marks) : marks[j][1] = 73)
    IN  marks[start][2] + 1 + CountWidth(args.version > 3)
        + (k - 1) * ((IF args.long_triangle_indices THEN 12 ELSE 6) + 2)

\* import_triangle called on one record of the written file, with either
\* value of its invert_normals parameter.
CallImportTriangle ==
    /\ pc = "exported"
    /\ \E k \in 1..Len(args.triangle_list), invert_normals \in BOOLEAN :
          nt' = [offset |-> TriangleAt(k),
                 invert_normals |-> invert_normals,
                 val |-> import_triangle(file, TriangleAt(k),
                                         args.long_triangle_indices, invert_normals).val]
    /\ pc' = "called"
    /\ UNCHANGED <<args, o3d_matrix, file, marks, packed_bytes, imp, cfg_vars, spline_vars, tile_vars>>

\* ------------------------------------------------------------- specifications

Next == Export \/ Load \/ Import \/ CallImportTriangle

Spec == Init /\ [][Next]_vars

NextFile == Export \/ Load \/ LoadPrefix \/ LoadDamaged \/ Import

SpecFile == InitFile /\ [][NextFile]_vars

\* ------------------------------------------------------------- read_cfg, the loop

\* The next line of the file and the command it belongs to.
Line == lines[cfg.i + 1]

Reading == cfg.state = "reading" /\ cfg.i < Len(lines)

Command == next_line(cfg, Line).current_command

ReadLod ==
    /\ Reading
    /\ Command = <<"[LOD]">>
    /\ cfg' = read_line(cfg, Line)
    /\ UNCHANGED <<lines, writer_vars, o3d_vars, spline_vars, tile_vars>>

ReadGroups ==
    /\ Reading
    /\ Command = <<"[groups]">>
    /\ cfg' = read_line(cfg, Line)
    /\ UNCHANGED <<lines, writer_vars, o3d_vars, spline_vars, tile_vars>>

ReadFriendlyname ==
    /\ Reading
    /\ Command = <<"[friendlyname]">>
    /\ cfg' = read_line(cfg, Line)
    /\ UNCHANGED <<lines, writer_vars, o3d_vars, spline_vars, tile_vars>>

ReadSurface ==
    /\ Reading
    /\ Command = <<"[surface]">>
    /\ cfg' = read_line(cfg, Line)
    /\ UNCHANGED <<lines, writer_vars, o3d_vars, spline_vars, tile_vars>>

ReadMesh ==
    /\ Reading
    /\ Command = <<"[mesh]">>
    /\ cfg' = read_line(cfg, Line)
    /\ UNCHANGED <<lines, writer_vars, o3d_vars, spline_vars, tile_vars>>

ReadInteriorlight ==
    /\ Reading
    /\ Command = <<"[interiorlight]">>
    /\ cfg' = read_line(cfg, Line)
    /\ UNCHANGED <<lines, writer_vars, o3d_vars, spline_vars, tile_vars>>

ReadSpotlight ==
    /\ Reading
    /\ Command = <<"[spotlight]">>
    /\ cfg' = read_line(cfg, Line)
    /\ UNCHANGED <<lines, writer_vars, o3d_vars, spline_vars, tile_vars>>

ReadLightEnh ==
    /\ Reading
    /\ Command = <<"[light_enh]">>
    /\ cfg' = read_line(cfg, Line)
    /\ UNCHANGED <<lines, writer_vars, o3d_vars, spline_vars, tile_vars>>

ReadLightEnh2 ==
    /\ Reading
    /\ Command = <<"[light_enh_2]">>
    /\ cfg' = read_line(cfg, Line)
    /\ UNCHANGED <<lines, writer_vars, o3d_vars, spline_vars, tile_vars>>

ReadMatl ==
    /\ Reading
    /\ Command \in {<<"[matl]">>, <<"[matl_change]">>}
    /\ cfg' = read_line(cfg, Line)
    /\ UNCHANGED <<lines, writer_vars, o3d_vars, spline_vars, tile_vars>>

ReadMaterialSection ==
    /\ Reading
    /\ Command \in {<<command>> : command \in MaterialSections}
    /\ cfg' = read_line(cfg, Line)
    /\ UNCHANGED <<lines, writer_vars, o3d_vars, spline_vars, tile_vars>>

ReadUnparsed ==
    /\ Reading
    /\ Command \notin {<<command>> : command \in Bracketed \ {"[foo]"}}
    /\ cfg' = read_line(cfg, Line)
    /\ UNCHANGED <<lines, writer_vars, o3d_vars, spline_vars, tile_vars>>

\* The loop is past the last line: read_cfg returns cfg_data.
ReadCfgReturn ==
    /\ cfg.state = "reading"
    /\ cfg.i = Len(lines)
    /\ cfg' = [cfg EXCEPT !.state = "returned"]
    /\ UNCHANGED <<lines, writer_vars, o3d_vars, spline_vars, tile_vars>>

ReadCfg ==
    \/ ReadLod
    \/ ReadGroups
    \/ ReadFriendlyname
    \/ ReadSurface
    \/ ReadMesh
    \/ ReadInteriorlight
    \/ ReadSpotlight
    \/ ReadLightEnh
    \/ ReadLightEnh2
    \/ ReadMatl
    \/ ReadMaterialSection
    \/ ReadUnparsed
    \/ ReadCfgReturn

NextCfg == ReadCfg

SpecCfg == InitCfg /\ [][NextCfg]_vars

SpecTree == InitTree /\ [][NextCfg]_vars

\* ------------------------------------------------------------- the CFG writer, its calls

\* write_additional_cfg_props with the dict of a LOD, a mesh or a material
\* of the tree read_cfg returned.
WriteAdditionalCfgProps ==
    /\ cfg.state = "returned"
    /\ cfg_props = None
    /\ \E id \in ScopeIds(cfg) :
          LET props == [cfg_data |-> ScopeList(cfg, id)]
          IN  /\ cfg_props' = <<props>>
              /\ written' = <<write_additional_cfg_props(props)>>
    /\ UNCHANGED <<lines, cfg, o3d_vars, spline_vars, tile_vars>>

\* read_cfg is called with the file that was written: it reads the lines,
\* stripped on the right, which leaves a written line as it is.
ReadBack ==
    /\ cfg.state = "returned"
    /\ written # None
    /\ lines # written[1]
    /\ lines' = written[1]
    /\ cfg' = CfgLocals
    /\ UNCHANGED <<writer_vars, o3d_vars, spline_vars, tile_vars>>

NextRewrite == ReadCfg \/ WriteAdditionalCfgProps \/ ReadBack

SpecRewrite == InitTree /\ [][NextRewrite]_vars

\* generate_materials makes the Blender material of one material of the
\* tree read_cfg returned; which textures are found is the file system's.
GenerateMaterials ==
    /\ cfg.state = "returned"
    /\ cfg_props = None
    /\ \E p \in Materials(cfg) :
          \E found \in SUBSET ({lower(t) : t \in Textures(MaterialAt(cfg, p))} \ {""}) :
              cfg_props' = <<generate_materials(MaterialAt(cfg, p), found)>>
    /\ UNCHANGED <<lines, cfg, written, o3d_vars, spline_vars, tile_vars>>

\* write_cfg_materials writes the material that was generated, the only or
\* the second material of its object.
WriteCfgMaterials ==
    /\ cfg_props # None
    /\ written = None
    /\ "error" \in DOMAIN cfg_props[1]
    /\ cfg_props[1].error = ""
    /\ \E i \in 0..1 : written' = <<write_cfg_materials(cfg_props[1], i)>>
    /\ UNCHANGED <<lines, cfg, cfg_props, o3d_vars, spline_vars, tile_vars>>

NextMaterials == ReadCfg \/ GenerateMaterials \/ WriteCfgMaterials

SpecMaterials == InitCfg /\ [][NextMaterials]_vars

\* ------------------------------------------------------------- io_omsi_spline, its calls

InitSpline ==
    /\ spline \in SplineCalls
    /\ gen = [state |-> "idle"]
    /\ CfgIdle
    /\ O3dIdle
    /\ TileIdle

GenerateTesselationPoints ==
    /\ spline # <<>>
    /\ gen.state = "idle"
    /\ \E grad \in GradSamples(spline.self) : \E dr_b \in SagAngles(spline.self) :
          gen' = [state |-> "called", op |-> "generate_tesselation_points",
                  result |-> generate_tesselation_points(spline.self, spline.spline_tess_dist,
                                                         spline.spline_curve_sag, grad, dr_b)]
    /\ UNCHANGED <<spline, o3d_vars, cfg_vars, tile_vars>>

GenerateMesh ==
    /\ spline # <<>>
    /\ gen.state = "idle"
    /\ \E grad \in GradSamples(spline.self) : \E dr_b \in SagAngles(spline.self) :
          gen' = [state |-> "called", op |-> "generate_mesh", grad |-> grad, dr_b |-> dr_b,
                  result |-> generate_mesh(spline.self, spline.sli_cache, spline.spline_tess_dist,
                                           spline.spline_curve_sag, grad, dr_b)]
    /\ UNCHANGED <<spline, o3d_vars, cfg_vars, tile_vars>>

NextSpline == GenerateTesselationPoints \/ GenerateMesh

SpecSpline == InitSpline /\ [][NextSpline]_vars

\* ------------------------------------------------------------- the curvature loop

InitLoop ==
    /\ spline \in LoopCalls
    /\ gen = [state |-> "idle"]
    /\ CfgIdle
    /\ O3dIdle
    /\ TileIdle

\* Line 112: the spline has a gradient that changes along it.
Curved ==
    /\ spline.self.start_grad # spline.self.end_grad \/ spline.self.use_delta_height
    /\ \/ compute_spline_gradient_coeffs(spline.self)[2][1] # 0
       \/ compute_spline_gradient_coeffs(spline.self)[1][1] # 0

\* The call with no loop pass, as a result and the number of passes.
Return(grad, iterations) ==
    gen' = [state |-> "called", op |-> "generate_tesselation_points", iterations |-> iterations,
            result |-> generate_tesselation_points(spline.self, spline.spline_tess_dist,
                                                   spline.spline_curve_sag, grad, Fl(3, 2))]

\* Lines 108-127: the call up to the loop; it returns here when the spline
\* has no changing gradient or the loop would take too long.
TesselationStraight ==
    /\ spline # <<>>
    /\ gen.state = "idle"
    /\ ~Curved \/ too_long(spline.spline_curve_sag)
    /\ Return(<<>>, 0)
    /\ UNCHANGED <<spline, o3d_vars, cfg_vars, tile_vars>>

TesselationLoop ==
    /\ spline # <<>>
    /\ gen.state = "idle"
    /\ Curved
    /\ ~too_long(spline.spline_curve_sag)
    /\ gen' = [state |-> "loop", z |-> Fl(0, 1), iterations |-> 0, samples |-> <<>>]
    /\ UNCHANGED <<spline, o3d_vars, cfg_vars, tile_vars>>

\* Lines 129-159: one pass of the loop. It appends the roots that lie in
\* 0..length, here none or one while fewer than MaxGrad were appended.
LoopPass ==
    /\ gen.state = "loop"
    /\ ~flt(HalfPi, gen.z)
    /\ ~(spline.self.use_delta_height /\ compute_spline_gradient_coeffs(spline.self)[1][1] = 0)
    /\ \E new \in {<<>>} \cup {<<fmul(spline.self.length, Fl(j, 2))>> : j \in 0..2} :
          /\ Len(gen.samples) + Len(new) <= MaxGrad
          /\ gen' = [gen EXCEPT !.z = next_z(gen.z, spline.spline_curve_sag),
                                !.iterations = gen.iterations + 1,
                                !.samples = gen.samples \o new]
    /\ UNCHANGED <<spline, o3d_vars, cfg_vars, tile_vars>>

\* Lines 133-137 with _3c = 0: the first pass divides by zero.
LoopRaise ==
    /\ gen.state = "loop"
    /\ ~flt(HalfPi, gen.z)
    /\ spline.self.use_delta_height /\ compute_spline_gradient_coeffs(spline.self)[1][1] = 0
    /\ Return(gen.samples, gen.iterations + 1)
    /\ UNCHANGED <<spline, o3d_vars, cfg_vars, tile_vars>>

\* Lines 161-209 once z has passed math.pi / 2.
LoopExit ==
    /\ gen.state = "loop"
    /\ flt(HalfPi, gen.z)
    /\ Return(gen.samples, gen.iterations)
    /\ UNCHANGED <<spline, o3d_vars, cfg_vars, tile_vars>>

NextLoop == TesselationStraight \/ TesselationLoop \/ LoopPass \/ LoopRaise \/ LoopExit

SpecLoop == InitLoop /\ [][NextLoop]_vars

\* ------------------------------------------------------------- io_omsi_tile, the terrain

InitTerrain ==
    /\ TileIdle
    /\ SplineIdle
    /\ CfgIdle
    /\ O3dIdle

ImportTerrainMesh ==
    /\ terrain = <<>>
    /\ \E heights \in HeightMaps : terrain' = import_terrain_mesh(heights)
    /\ UNCHANGED <<query, tile, o3d_vars, cfg_vars, spline_vars>>

GetInterpolatedHeight ==
    /\ terrain # <<>>
    /\ query = <<>>
    /\ \E x \in Coordinates, y \in Coordinates :
          query' = [x |-> x, y |-> y,
                    result |-> get_interpolated_height(terrain.heights, x, y)]
    /\ UNCHANGED <<terrain, tile, o3d_vars, cfg_vars, spline_vars>>

NextTerrain == ImportTerrainMesh \/ GetInterpolatedHeight

SpecTerrain == InitTerrain /\ [][NextTerrain]_vars

\* ------------------------------------------------------------- io_omsi_tile, the objects of a map

\* do_import on a global.cfg, before its loop over the [map] entries.
InitObjects ==
    /\ terrain = <<>>
    /\ query = <<>>
    /\ \E global_cfg \in GlobalCfgs :
          tile = [state |-> "maps", maps |-> global_cfg, objs |-> <<>>,
                  loaded_objs |-> <<>>,
                  imports |-> [p \in Paths |-> 0], placed |-> "none",
                  d |-> Fl(0, 1), passes |-> 0]
    /\ SplineIdle
    /\ CfgIdle
    /\ O3dIdle

IsSpline(obj) == obj.cfg_type = "splineAttachement"

\* A [map] entry beyond the load radius is passed over.
SkipMap ==
    /\ tile.state = "maps"
    /\ tile.maps # <<>>
    /\ ~Head(tile.maps).near
    /\ tile' = [tile EXCEPT !.maps = Tail(@)]
    /\ UNCHANGED <<terrain, query, o3d_vars, cfg_vars, spline_vars>>

\* import_tile up to the loop of import_map_objects over the objects.
ImportTile ==
    /\ tile.state = "maps"
    /\ tile.maps # <<>>
    /\ Head(tile.maps).near
    /\ tile' = [tile EXCEPT !.state = "objs", !.objs = Head(tile.maps).objs,
                            !.loaded_objs = import_tile_loaded_objs(@)]
    /\ UNCHANGED <<terrain, query, o3d_vars, cfg_vars, spline_vars>>

\* One pass of the loop over the objects, up to the repetition loop: the
\* object is passed over, cloned, or imported; an import that raised leaves
\* no objects. The objects of an import are new objects.
Placed(t, obj, placed) ==
    IF IsSpline(obj)
    THEN [t EXCEPT !.state = "rep", !.placed = placed, !.d = obj.rep_distance,
                   !.passes = 0]
    ELSE [t EXCEPT !.objs = Tail(@), !.placed = placed]

PlaceObject ==
    /\ tile.state = "objs"
    /\ tile.objs # <<>>
    /\ LET obj == Head(tile.objs)
           n == tile.imports[obj.path] + 1
       IN  IF IsSpline(obj) /\ (flt(obj.pos_z, Fl(0, 1)) \/ flt(spline_length, obj.pos_z))
           THEN tile' = [tile EXCEPT !.objs = Tail(@), !.placed = "skipped"]
           ELSE IF obj.path \in DOMAIN tile.loaded_objs
           THEN tile' = Placed(tile, obj, "cloned")
           ELSE \E imported_objs \in {<<>>, <<<<obj.path, n>>>>} :
                   tile' = Placed([tile EXCEPT
                                      !.loaded_objs = SetItem(@, obj.path, imported_objs),
                                      !.imports[obj.path] = n],
                                  obj, "imported")
    /\ UNCHANGED <<terrain, query, o3d_vars, cfg_vars, spline_vars>>

\* The condition of the repetition loop.
Repeats ==
    LET obj == Head(tile.objs)
    IN  /\ flt(tile.d, obj.rep_range)
        /\ flt(fadd(tile.d, obj.pos_z), spline_length)

\* One pass of the repetition loop: a clone, and d advanced. Of the clones
\* made, which grow in number with every pass, passes keeps the parity.
RepPass ==
    /\ tile.state = "rep"
    /\ Repeats
    /\ Head(tile.objs).path \in DOMAIN tile.loaded_objs
    /\ tile' = [tile EXCEPT !.d = fadd(@, Head(tile.objs).rep_distance),
                            !.placed = "repeated", !.passes = 1 - @]
    /\ UNCHANGED <<terrain, query, o3d_vars, cfg_vars, spline_vars>>

\* The repetition loop left, and the object positioned.
RepExit ==
    /\ tile.state = "rep"
    /\ ~Repeats
    /\ tile' = [tile EXCEPT !.state = "objs", !.objs = Tail(@)]
    /\ UNCHANGED <<terrain, query, o3d_vars, cfg_vars, spline_vars>>

\* import_map_objects and import_tile return.
ImportTileReturn ==
    /\ tile.state = "objs"
    /\ tile.objs = <<>>
    /\ tile' = [tile EXCEPT !.state = "maps", !.maps = Tail(@), !.placed = "none"]
    /\ UNCHANGED <<terrain, query, o3d_vars, cfg_vars, spline_vars>>

\* do_import returns.
DoImportReturn ==
    /\ tile.state = "maps"
    /\ tile.maps = <<>>
    /\ tile' = [tile EXCEPT !.state = "done"]
    /\ UNCHANGED <<terrain, query, o3d_vars, cfg_vars, spline_vars>>

NextObjects ==
    \/ SkipMap
    \/ ImportTile
    \/ PlaceObject
    \/ RepPass
    \/ RepExit
    \/ ImportTileReturn
    \/ DoImportReturn

SpecObjects == InitObjects /\ [][NextObjects]_vars

\* The repetition loop is one callback of the importer: a pass that can be
\* taken is taken.
SpecObjectsFair == SpecObjects /\ WF_vars(NextObjects)

\* ------------------------------------------------------------- properties

Range(f) == {f[j] : j \in DOMAIN f}

\* The document import_o3d returns for the arguments export_o3d was given.
DecodedVertex(v) == <<SubSeq(v, 1, 3), SubSeq(v, 4, 6), SubSeq(v, 7, 8)>>

DecodedTriangle(t) == <<SubSeq(t, 1, 3), t[4]>>

DecodedMaterial(m) == <<SubSeq(m, 1, 4), SubSeq(m, 5, 7), m[11], m[12]>>

\* Encryption, 32-bit indices and the alternative seed need a version above 3.
LegalOptions ==
    args.version > 3
    \/ ~(args.encrypted \/ args.long_triangle_indices \/ args.alt_encryption_seed)

\* Triangles and bone weights refer to vertices the document has.
ValidDocument ==
    /\ \A t \in Range(args.triangle_list) :
          \A k \in 1..3 : t[k] < Len(args.vertex_list)
    /\ \A b \in Range(args.bone_list) :
          \A w \in Range(b[2]) : w[1] < Len(args.vertex_list)

Finished == pc \in {"returned", "raised"}

\* C1: import_o3d of the bytes export_o3d wrote returns the document that was
\* encoded: the same vertices, triangles, materials, bones and transform,
\* whenever the options are legal for the version.
C1_RoundTrip ==
    (Finished /\ packed_bytes = file /\ LegalOptions /\ ValidDocument) =>
        /\ pc = "returned"
        /\ imp.vertex_list = [i \in DOMAIN args.vertex_list |-> DecodedVertex(args.vertex_list[i])]
        /\ imp.triangle_list =
              [i \in DOMAIN args.triangle_list |-> DecodedTriangle(args.triangle_list[i])]
        /\ imp.material_list =
              [i \in DOMAIN args.material_list |-> DecodedMaterial(args.material_list[i])]
        /\ imp.bone_list = args.bone_list
        /\ imp.transform = o3d_matrix

BadMagic ==
    ~(Len(packed_bytes) >= 2 /\ packed_bytes[1] = 132 /\ packed_bytes[2] = 25)

\* C2: a buffer whose first two bytes are not 0x84 0x19 makes import_o3d fail:
\* it never enters the section loop and never returns a document.
C2_BadMagicFails ==
    (BadMagic /\ pc \in {"import_loop", "returned", "raised"}) => pc = "raised"

\* C3: export_o3d with version <= 3 and any of encrypted, long_triangle_indices
\* or alt_encryption_seed set stops with an error before it writes a section.
C3_IllegalOptionsRejected ==
    ~LegalOptions => (marks = <<>> /\ pc \in {"export_header", "export_vertex_list"})

\* The three indices of the triangle record at an offset of the file, in file
\* order, and its material index.
InFile(offset) ==
    LET w == IF args.long_triangle_indices THEN 4 ELSE 2
    IN  <<[k \in 1..3 |-> Unpack(file, offset + w * (k - 1), w)],
          Unpack(file, offset + 3 * w, 2)>>

\* C4: decoding a triangle record with the winding flag set returns its three
\* indices in the reverse of their order in the file, with the flag clear in
\* file order, and the material index as stored either way.
C4_InvertReversesFileOrder ==
    pc = "called" =>
        LET t == InFile(nt.offset)[1]
        IN  /\ nt.val[1] = IF nt.invert_normals THEN <<t[3], t[2], t[1]>> ELSE t
            /\ nt.val[2] = InFile(nt.offset)[2]

KnownTags == {23, 73, 38, 84, 121}

FieldOf(tag) ==
    CASE tag = 23 -> "vertex_list"
      [] tag = 73 -> "triangle_list"
      [] tag = 38 -> "material_list"
      [] tag = 84 -> "bone_list"
      [] tag = 121 -> "transform"

\* C5: on a section tag it does not know import_o3d stops without raising and
\* returns what it has: the sections decoded before the tag as they were
\* decoded, and every section not seen yet at its default.
C5_UnexpectedSectionReturnsPartial ==
    /\ [](\A tag \in KnownTags :
             tag \notin Range(imp.read) => imp[FieldOf(tag)] = Locals[FieldOf(tag)])
    /\ [][(InLoop /\ packed_bytes[imp.off + 1] \notin KnownTags) =>
             /\ pc' = "returned"
             /\ \A tag \in KnownTags : imp'[FieldOf(tag)] = imp[FieldOf(tag)]]_vars

C5_Witness ==
    /\ pc = "returned"
    /\ imp.exit = "break"
    /\ imp.vertex_list # <<>>
    /\ imp.triangle_list # <<>>
    /\ 38 \notin Range(imp.read)
    /\ imp.material_list = <<>>
    /\ args.material_list # <<>>

\* The file is one import_o3d reads back section by section.
WellFormedFile ==
    /\ args.bone_list = <<>>
    /\ args.version > 3 \/ ~args.long_triangle_indices

\* The buffer is a proper prefix of the file that ends after the tag byte of
\* a section and before the section's last byte.
EndsInsideSection ==
    /\ Len(packed_bytes) < Len(file)
    /\ packed_bytes = SubSeq(file, 1, Len(packed_bytes))
    /\ \E j \in 1..Len(marks) :
          /\ marks[j][2] < Len(packed_bytes)
          /\ Len(packed_bytes) < (IF j < Len(marks) THEN marks[j + 1][2] ELSE Len(file))

\* C6: import_o3d raises on every proper prefix of a well-formed file that
\* ends strictly inside a section.
C6_TruncatedRaises ==
    (Finished /\ WellFormedFile /\ EndsInsideSection) => pc = "raised"

RecordsOf(tag) ==
    CASE tag = 23 -> Len(args.vertex_list)
      [] tag = 73 -> Len(args.triangle_list)
      [] tag = 38 -> Len(args.material_list)
      [] tag = 84 -> Len(args.bone_list)

\* C7: every list section export_o3d wrote starts with the number of records
\* that follow, 2 bytes wide for materials and else 4 or 2 by the version.
C7_CountIsRecordsWritten ==
    pc = "exported" =>
        \A j \in 1..Len(marks) :
            marks[j][1] # 121 =>
                Unpack(file, marks[j][2] + 1,
                       IF marks[j][1] = 38 THEN 2 ELSE CountWidth(args.version > 3))
                = RecordsOf(marks[j][1])

\* The 4x4 matrix whose rows are the four quarters of a flat list.
RowsOf(flat) == [r \in 1..4 |-> [c \in 1..4 |-> flat[4 * (r - 1) + c]]]

TransformDecoded == pc \in {"import_loop", "returned"} /\ 121 \in Range(imp.read)

C9_IndicesBelowVertexCount ==
    pc = "returned" =>
        \A t \in Range(imp.triangle_list) :
            \A k \in 1..3 : t[1][k] < Len(imp.vertex_list)

\* The line the parser is at belongs to a section whose parent scope is not
\* open: a material section with no material, or a section of a mesh with
\* no mesh.
OutOfScope(c) ==
    /\ c.current_command # None
    /\ \/ c.current_command[1] \in MaterialSections /\ c.current_mat = None
       \/ c.current_command[1] \in MeshSections /\ c.current_mesh = None

\* C10: read_cfg never aborts at a line of a section that is outside the
\* scope it needs; it skips the section and goes on with the lines after it.
C10_OutOfScopeNeverAborts == cfg.state = "raised" => ~OutOfScope(cfg)

\* The texture line of the last [matl] or [matl_change] section that has one,
\* among the lines before the line at index i.
Texture(i) ==
    LET Opens(k) == /\ lines[k] \in {"[matl]", "[matl_change]"}
                    /\ k + 1 <= i
                    /\ ~IsHeader(lines[k + 1])
        last == CHOOSE k \in 1..i : Opens(k) /\ \A j \in (k + 1)..i : ~Opens(j)
    IN  lines[last + 1]

\* The line read next is the parameter of a [matl_alpha] section, an integer,
\* and a material is open.
AlphaLine ==
    /\ Reading
    /\ next_line(cfg, Line).current_command = <<"[matl_alpha]">>
    /\ next_line(cfg, Line).param_ind = 0
    /\ cfg.current_mat # None
    /\ IsInt(Line)

\* C11: the parameter v of a [matl_alpha] section after a [matl] section for
\* texture t sets alpha to (v, line index) in the one material keyed
\* lower(t) in the current mesh of the current LOD, and leaves every other
\* material of the tree, and the rest of that material, as it was.
C11_AlphaSetsOneMaterial ==
    [][AlphaLine =>
          LET target == <<cfg.current_lod, cfg.current_mesh[1], lower(Texture(cfg.i))>>
          IN  /\ Materials(cfg') = Materials(cfg)
              /\ target \in Materials(cfg)
              /\ MaterialAt(cfg', target)
                    = Put(MaterialAt(cfg, target), "alpha", <<int(Line), cfg.i>>)
              /\ \A p \in Materials(cfg) \ {target} :
                    MaterialAt(cfg', p) = MaterialAt(cfg, p)]_vars

\* An alpha was set in the second LOD on a material whose name is also a
\* material of two meshes of the first LOD and that has a sibling in its mesh.
C11_Witness ==
    /\ cfg.state = "returned"
    /\ DOMAIN cfg.cfg_data = {Number(-1), Number(0), Number(1)}
    /\ <<Number(0), "a.o3d", "tex.bmp">> \in Materials(cfg)
    /\ <<Number(0), "a.o3d", "b.bmp">> \in Materials(cfg)
    /\ "alpha" \in DOMAIN MaterialAt(cfg, <<Number(0), "a.o3d", "tex.bmp">>)
    /\ MaterialAt(cfg, <<Number(0), "a.o3d", "tex.bmp">>).alpha[1] = 2
    /\ "alpha" \notin DOMAIN MaterialAt(cfg, <<Number(0), "a.o3d", "b.bmp">>)
    /\ <<Number(1), "a.o3d", "tex.bmp">> \in Materials(cfg)
    /\ MaterialAt(cfg, <<Number(1), "a.o3d", "tex.bmp">>).alpha[1] = 1
    /\ <<Number(1), "b.o3d", "tex.bmp">> \in Materials(cfg)
    /\ "alpha" \notin DOMAIN MaterialAt(cfg, <<Number(1), "b.o3d", "tex.bmp">>)

\* The line read next is the parameter of a [mesh] or [LOD] section.
ScopeLine ==
    /\ Reading
    /\ next_line(cfg, Line).current_command \in {<<"[mesh]">>, <<"[LOD]">>}
    /\ next_line(cfg, Line).param_ind = 0

\* The material is in the mesh that is open.
InOpenMesh(c, p) == c.current_mesh # None /\ <<p[1], p[2]>> = <<c.current_lod, c.current_mesh[1]>>

\* C12: the open material is always a material of the open mesh; a [mesh] or
\* [LOD] line closes the material and opens a scope with no materials; and
\* no line changes a material of a mesh that is not open, nor, while no
\* material is open, any material at all.
C12_MaterialsScopedPerMesh ==
    /\ [](cfg.current_mat # None =>
             HasMesh(cfg) /\ cfg.current_mat[1] \in DOMAIN Mesh(cfg).matls)
    /\ [][(ScopeLine /\ cfg'.state = "reading") =>
             /\ cfg'.current_mat = None
             /\ \A p \in Materials(cfg') : ~InOpenMesh(cfg', p)]_vars
    /\ [][Reading =>
             \A p \in Materials(cfg) \cap Materials(cfg') :
                 (~InOpenMesh(cfg', p) \/ (cfg.current_mat = None /\ cfg'.current_mat = None))
                    => MaterialAt(cfg', p) = MaterialAt(cfg, p)]_vars

\* A [matl_alpha] parameter was read in a mesh opened after meshes that have
\* materials, before any [matl] of the new mesh.
C12_Witness ==
    /\ cfg.state = "reading"
    /\ cfg.current_command = <<"[matl_alpha]">>
    /\ cfg.param_ind = 0
    /\ cfg.current_mat = None
    /\ cfg.current_mesh = <<"b.o3d">>
    /\ cfg.current_lod = Number(0)
    /\ <<Number(0), "a.o3d", "tex.bmp">> \in Materials(cfg)
    /\ <<Number(1), "b.o3d", "tex.bmp">> \in Materials(cfg)

\* The headers read_cfg has a branch for.
Recognised == Bracketed \ {"[foo]", "[]"}

\* The index of the line that opened the innermost scope open after the
\* first i lines: the first parameter of the last [LOD], [mesh], [matl] or
\* [matl_change]; 0 when there is none.
ScopeStart(i) ==
    LET Opens(k) == /\ k > 1
                    /\ lines[k - 1] \in {"[LOD]", "[mesh]", "[matl]", "[matl_change]"}
                    /\ ~IsHeader(lines[k])
    IN  IF \E k \in 1..i : Opens(k)
        THEN CHOOSE k \in 1..i : Opens(k) /\ \A j \in (k + 1)..i : ~Opens(j)
        ELSE 0

\* The sections with a header read_cfg has no branch for among the lines
\* k..i, each as <<header, its lines up to the next header>>, in file order;
\* inside tells whether line k continues the last of them.
RECURSIVE Verbatim(_, _, _, _)
Verbatim(k, i, inside, found) ==
    IF k > i THEN found
    ELSE IF IsHeader(lines[k])
    THEN IF lines[k] \in Recognised THEN Verbatim(k + 1, i, FALSE, found)
         ELSE Verbatim(k + 1, i, TRUE, Append(found, <<lines[k]>>))
    ELSE IF inside
    THEN Verbatim(k + 1, i, TRUE,
                  [found EXCEPT ![Len(found)] = Append(@, lines[k])])
    ELSE Verbatim(k + 1, i, FALSE, found)

OpenScope(c) ==
    IF c.current_mat # None THEN <<c.current_lod, c.current_mesh[1], c.current_mat[1]>>
    ELSE IF c.current_mesh # None THEN <<c.current_lod, c.current_mesh[1]>>
    ELSE <<c.current_lod>>

\* C13: the list of unparsed sections of the innermost open scope holds
\* exactly the sections without a branch read since the scope was opened,
\* each as one list of its header and its lines, unchanged and in file
\* order; and a line changes the list of no other scope.
C13_UnparsedKeptVerbatim ==
    /\ [](cfg.state \in {"reading", "returned"} =>
             ScopeList(cfg, OpenScope(cfg))
                = Verbatim(ScopeStart(cfg.i) + 1, cfg.i, FALSE, <<>>))
    /\ [][Reading =>
             \A id \in ScopeIds(cfg) \cap ScopeIds(cfg') :
                 id # OpenScope(cfg') => ScopeList(cfg', id) = ScopeList(cfg, id)]_vars

\* Two sections were kept in the open material, in file order, and none in
\* its mesh or its LOD.
C13_Witness ==
    /\ cfg.state = "returned"
    /\ cfg.current_mat # None
    /\ ScopeList(cfg, OpenScope(cfg)) = <<<<"[foo]", "x", "">>, <<"[foo]">>>>
    /\ Mesh(cfg).cfg_data = <<>>
    /\ Bucket(cfg).cfg_data = <<>>

\* A section as it is after it was written: its last line is blank, after
\* one blank line was added to a section that had no blank last line.
Terminated(prop) ==
    IF Len(prop) > 1 /\ prop[Len(prop)] = "" THEN prop ELSE Append(prop, "")

\* The lines of a list of sections, one after the other.
RECURSIVE Flat(_)
Flat(props) == IF props = <<>> THEN <<>> ELSE Head(props) \o Flat(Tail(props))

\* read_cfg has returned from reading the file that was written.
ReadBackDone == cfg.state = "returned" /\ written # None /\ lines = written[1]

\* C14, as stated: the written sections read back are the sections that
\* were written, with the same header and the same parameter lines.
C14_RoundTripSameParameters ==
    ReadBackDone => cfg.cfg_data[Number(-1)].cfg_data = cfg_props[1].cfg_data

\* C14: write_additional_cfg_props writes, for every section in turn, the
\* header, then the section's lines in order, then one blank line unless
\* the section's last line is blank; read_cfg reads the written lines back
\* as the same sections in the same order, each with the same header and
\* the same lines plus the blank line that was added, and as nothing else.
C14_RoundTripAddsBlankLine ==
    /\ written # None =>
          written[1] = Flat([k \in DOMAIN cfg_props[1].cfg_data |->
                             Terminated(cfg_props[1].cfg_data[k])])
    /\ ReadBackDone =>
          /\ cfg.cfg_data =
                (Number(-1) :>
                    [NewBucket EXCEPT !.cfg_data =
                        [k \in DOMAIN cfg_props[1].cfg_data |->
                            Terminated(cfg_props[1].cfg_data[k])]])

\* Two sections were written and read back, one of them without lines and
\* one whose last line was blank already.
C14_Witness ==
    /\ ReadBackDone
    /\ cfg_props[1].cfg_data = <<<<"[foo]", "x", "">>, <<"[foo]">>>>
    /\ cfg.cfg_data[Number(-1)].cfg_data = <<<<"[foo]", "x", "">>, <<"[foo]", "">>>>

\* The material p of the tree was generated and written.
Exported(p) ==
    /\ written # None
    /\ \E found \in SUBSET {lower(t) : t \in Textures(MaterialAt(cfg, p))} :
          /\ lower(MaterialAt(cfg, p).diffuse[1]) \in found
          /\ cfg_props = <<generate_materials(MaterialAt(cfg, p), found)>>

\* C15, as stated: when a material was generated and written, the header
\* of every section read_cfg stashed under its bracketed tag and of every
\* verbatim section of the material is among the written lines.
C15_StashedSectionsWritten ==
    \A p \in Materials(cfg) :
        Exported(p) =>
            /\ \A tag \in DOMAIN MaterialAt(cfg, p) \cap Bracketed :
                  tag \in Range(written[1])
            /\ \A k \in DOMAIN MaterialAt(cfg, p).cfg_data :
                  MaterialAt(cfg, p).cfg_data[k][1] \in Range(written[1])

\* The number of lines before the parameter of the [matl_alpha] section that
\* follows the header of the LOD lod.
AlphaIndex(lod) ==
    LET at == CHOOSE k \in DOMAIN lines : lines[k] = "[LOD]" /\ lines[k + 1] = lod
    IN  CHOOSE k \in DOMAIN lines :
            /\ k > at
            /\ lines[k] = "[matl_alpha]"
            /\ \A j \in (at + 1)..(k - 1) : lines[j] # "[matl_alpha]"

\* C16, as stated: the tree read from a file with the two LODs has exactly
\* two LOD keys.
C16_TwoLodKeys ==
    cfg.state = "returned" /\ lines \in ScenarioFiles =>
        Cardinality(DOMAIN cfg.cfg_data) = 2

\* C16: read_cfg returns for a file with the two LODs, and the tree has
\* exactly three keys: -1, the default bucket, which is as it was made, and
\* 1.0 and 0.0, each with one mesh and one material in it, whose alpha is
\* (1, index of the line that holds the alpha value).
C16_TwoLodsAndDefaultBucket ==
    lines \in ScenarioFiles =>
        /\ cfg.state # "raised"
        /\ cfg.state = "returned" =>
              /\ DOMAIN cfg.cfg_data = {Number(-1), Number(1), Number(0)}
              /\ cfg.cfg_data[Number(-1)] = NewBucket
              /\ \A lod \in {"1.0", "0.0"} :
                    /\ Cardinality(DOMAIN cfg.cfg_data[float(lod)].meshes) = 1
                    /\ \A mesh \in DOMAIN cfg.cfg_data[float(lod)].meshes :
                          LET matls == cfg.cfg_data[float(lod)].meshes[mesh].matls
                          IN  /\ Cardinality(DOMAIN matls) = 1
                              /\ \A matl \in DOMAIN matls :
                                    /\ "alpha" \in DOMAIN matls[matl]
                                    /\ matls[matl].alpha = <<1, AlphaIndex(lod)>>

\* A file with blank lines in its first LOD only was read: the alpha values
\* are on the lines 11 and 21, counted from 0.
C16_Witness ==
    /\ cfg.state = "returned"
    /\ lines = <<"[LOD]", "1.0", "", "[mesh]", "a.o3d", "", "[matl]", "Tex.BMP", "0", "",
                 "[matl_alpha]", "1", "", "[LOD]", "0.0", "[mesh]", "b.o3d",
                 "[matl]", "Tex.BMP", "0", "[matl_alpha]", "1">>
    /\ cfg.cfg_data[Number(1)].meshes["a.o3d"].matls["tex.bmp"].alpha = <<1, 11>>
    /\ cfg.cfg_data[Number(0)].meshes["b.o3d"].matls["tex.bmp"].alpha = <<1, 21>>

\* The call of generate_tesselation_points has returned its samples.
Tesselated ==
    /\ gen.state = "called"
    /\ gen.op = "generate_tesselation_points"
    /\ gen.result.state = "returned"

\* C17: for a spline of length > 0, the samples generate_tesselation_points
\* returns, welded or from the fixed-step fallback, start with exactly 0 and
\* end with exactly length.
C17_EndPointsExact ==
    Tesselated /\ spline.self.length[1] > 0 =>
        /\ gen.result.samples[1] = <<0, 1>>
        /\ gen.result.samples[Len(gen.result.samples)] = spline.self.length

\* generate_mesh was called for a spline of length 0 whose profile is loaded.
MeshOfNoLength ==
    /\ gen.state = "called"
    /\ gen.op = "generate_mesh"
    /\ spline.self.length[1] = 0
    /\ spline.self.sli_path \in DOMAIN spline.sli_cache

\* C18: for a spline of length 0 whose profile is loaded, generate_mesh
\* returns empty lists of vertices, triangles, material ids and texture
\* coordinates; it raises nothing and never evaluates the spline, so nothing
\* is divided by the length.
C18_NoLengthNoMesh ==
    MeshOfNoLength =>
        /\ gen.result.state = "returned"
        /\ gen.result.verts = <<>> /\ gen.result.tris = <<>>
        /\ gen.result.mat_ids = <<>> /\ gen.result.uvs = <<>>
        /\ gen.result.evaluated = 0

\* A spline of length 0 with a gradient change and a profile of two parts.
C18_Witness ==
    /\ MeshOfNoLength
    /\ spline.self.start_grad # spline.self.end_grad
    /\ Len(spline.sli_cache[spline.self.sli_path][1][1]) > 1
    /\ gen.result.state = "returned"

\* The spline is straight: no radius, equal gradients, no height difference.
Straight ==
    /\ spline.self.radius[1] = 0
    /\ spline.self.start_grad = spline.self.end_grad
    /\ ~spline.self.use_delta_height

\* The length is exactly k times spline_tess_dist.
Multiple(k) ==
    spline.self.length[1] * spline.spline_tess_dist[2]
        = k * spline.spline_tess_dist[1] * spline.self.length[2]

\* C19: for a straight spline whose length is k * tess_dist,
\* generate_tesselation_points returns the k + 1 samples 0, tess_dist,
\* 2 * tess_dist, ..., length: the weld removes none.
C19_OneSamplePerStep ==
    \A k \in 1..MaxSegments :
        Tesselated /\ Straight /\ Multiple(k) =>
            /\ Len(gen.result.samples) = k + 1
            /\ \A i \in 0..k :
                  i + 1 \in DOMAIN gen.result.samples =>
                      gen.result.samples[i + 1] = fmul(Fl(i, 1), spline.spline_tess_dist)

\* C20: for a straight spline of length > 0, whether or not the length is a
\* multiple of tess_dist, two consecutive samples of
\* generate_tesselation_points differ by at most tess_dist.
C20_ChordAtMostTessDist ==
    Tesselated /\ Straight /\ spline.self.length[1] > 0 =>
        \A i \in 1..(Len(gen.result.samples) - 1) :
            ~flt(spline.spline_tess_dist,
                 fsub(gen.result.samples[i + 1], gen.result.samples[i]))

\* What one step of the call keeps to: a sag that makes the loop too long
\* returns at most 100 fixed steps with no pass of the loop; a pass adds
\* spline_curve_sag * 10 to z, which grows, and there are at most
\* 10000 / 10 + 1 passes.
LoopStep ==
    /\ gen.state = "idle" /\ Curved /\ too_long(spline.spline_curve_sag) =>
          /\ gen'.state = "called"
          /\ gen'.iterations = 0
          /\ gen'.result.state = "returned"
          /\ Len(gen'.result.samples) <= 100 + 1
    /\ gen'.state = "loop" => ~too_long(spline.spline_curve_sag)
    /\ gen.state = "loop" /\ gen'.state = "loop" =>
          /\ gen'.z = fadd(gen.z, fmul(spline.spline_curve_sag, Fl(10, 1)))
          /\ flt(gen.z, gen'.z)
          /\ ~flt(HalfPi, gen.z)
          /\ gen'.iterations = gen.iterations + 1
          /\ gen'.iterations <= (10000 \div 10) + 1
    /\ gen.state = "loop" /\ gen'.state = "called" /\ gen'.result.state = "returned" =>
          flt(HalfPi, gen.z)

\* C21: the curvature loop of generate_tesselation_points ends after a
\* bounded number of passes: when (pi/2) / curve_sag exceeds 10000 it is not
\* entered and a fixed-step sampling of at most 100 segments is returned;
\* otherwise z grows by curve_sag * 10 in every pass until it passes pi/2.
C21_LoopBounded == [][LoopStep]_vars

\* The loop was left after several passes, with z beyond pi/2.
C21_Witness ==
    /\ gen.state = "called"
    /\ "iterations" \in DOMAIN gen
    /\ gen.iterations > 2
    /\ gen.result.state = "returned"
    /\ Len(gen.result.samples) > 2

\* C22: at the world coordinates of a grid point of the terrain mesh, x = 5 *
\* column and y = 5 * row, get_interpolated_height returns exactly the height
\* stored for that row and column.
C22_GridPointsExact ==
    query # <<>> =>
        \A i \in DOMAIN terrain.verts :
            /\ query.x = <<terrain.verts[i][1], 1>>
            /\ query.y = <<terrain.verts[i][2], 1>>
            => /\ query.result.state = "returned"
               /\ query.result.value = <<terrain.verts[i][3], 1>>

\* C23: for all coordinates, negative and beyond 300 included,
\* get_interpolated_height indexes only rows and columns 0..60 and returns
\* a value; it raises nothing.
C23_LookupsClamped ==
    query # <<>> =>
        /\ query.result.state = "returned"
        /\ query.result.rows \subseteq 0..60
        /\ query.result.cols \subseteq 0..60

\* A lookup left of the tile and beyond its far edge.
C23_Witness ==
    /\ query # <<>>
    /\ query.x[1] < 0
    /\ query.y = <<1000, 1>>
    /\ query.result.state = "returned"
    /\ query.result.rows = {60}
    /\ query.result.cols = {0}

\* C24: during one global.cfg import the model import of a path is invoked
\* at most once over all tiles: a path is a key of the cache exactly when it
\* was imported (an import that raised included), a placement of a path that
\* is a key clones and imports nothing, and an entry once inserted is never
\* removed or replaced.
CacheStep ==
    /\ \A p \in Paths : tile'.imports[p] <= 1
    /\ \A p \in Paths : (p \in DOMAIN tile'.loaded_objs) <=> (tile'.imports[p] = 1)
    /\ \A p \in DOMAIN tile.loaded_objs :
          /\ p \in DOMAIN tile'.loaded_objs
          /\ tile'.loaded_objs[p] = tile.loaded_objs[p]
    /\ (/\ tile.state = "objs"
        /\ tile.objs # <<>>
        /\ Head(tile.objs).path \in DOMAIN tile.loaded_objs
        /\ tile'.placed # "skipped")
          => /\ tile'.placed = "cloned"
             /\ tile'.imports = tile.imports

C24_ImportedAtMostOnce == [][CacheStep]_vars

\* A second tile places a path the first tile imported, where the import
\* had raised, and clones it.
C24_Witness ==
    /\ tile.state \in {"objs", "rep"}
    /\ Len(tile.maps) = 1
    /\ tile.placed = "cloned"
    /\ Len(tile.objs) = Len(Head(tile.maps).objs)
    /\ \E p \in DOMAIN tile.loaded_objs : tile.loaded_objs[p] = <<>>

\* C29: the repetition loop of a spline attachment terminates: an import
\* that entered the loop leaves it, also when rep_distance is 0 or negative
\* while rep_range is positive.
C29_RepetitionTerminates == (tile.state = "rep") ~> (tile.state # "rep")

\* generate_mesh returned the mesh of a spline with the profile road.sli,
\* whose strips have 2 and 3 points. Samples is the number of samples: every
\* sample adds one vertex per point of the profile.
MeshedRoad ==
    /\ gen.state = "called"
    /\ gen.op = "generate_mesh"
    /\ gen.result.state = "returned"
    /\ spline.self.sli_path = "road.sli"
    /\ spline.self.length[1] # 0

Samples == Len(gen.result.verts) \div 5

RoadStrip(first, n_tris, v_count, n_verts, mat_id) ==
    \A t \in (first + 1)..(first + n_tris) :
        /\ gen.result.mat_ids[t] = mat_id
        /\ \A i \in 1..3 : /\ gen.result.tris[t][i] >= v_count
                           /\ gen.result.tris[t][i] < v_count + n_verts

\* C25: a strip with p >= 2 points over n >= 2 samples gets exactly
\* 2 * (n - 1) * (p - 1) triangles and as many material ids, and every index
\* of its triangles lies in the strip's own block of n * p vertices, which
\* starts at the vertex count of the strips before it.
C25_TwoTrianglesPerCell ==
    (MeshedRoad /\ Samples >= 2) =>
        /\ Len(gen.result.verts) = 5 * Samples
        /\ Len(gen.result.tris) = 2 * (Samples - 1) * 1 + 2 * (Samples - 1) * 2
        /\ Len(gen.result.mat_ids) = Len(gen.result.tris)
        /\ RoadStrip(0, 2 * (Samples - 1) * 1, 0, Samples * 2, 0)
        /\ RoadStrip(2 * (Samples - 1) * 1, 2 * (Samples - 1) * 2, Samples * 2, Samples * 3, 1)

\* A mesh of five samples: eight triangles of the lane, sixteen of the kerb.
C25_Witness ==
    /\ MeshedRoad
    /\ Samples = 5
    /\ Len(gen.result.tris) = 24
    /\ gen.result.tris[9][1] >= 10

\* C26: the triangles of a mirrored spline are, position by position, the
\* triangles of the same spline unmirrored, with the same profile and
\* samples, with their three indices in reverse order.
C26_MirrorReversesWinding ==
    MeshedRoad =>
        LET other == generate_mesh([spline.self EXCEPT !.mirror = ~@], spline.sli_cache,
                                   spline.spline_tess_dist, spline.spline_curve_sag,
                                   gen.grad, gen.dr_b)
            reversed(tri) == <<tri[3], tri[2], tri[1]>>
            same(mirrored, unmirrored) ==
                /\ Len(mirrored) = Len(unmirrored)
                /\ \A t \in 1..Len(mirrored) : mirrored[t] = reversed(unmirrored[t])
        IN  /\ other.state = "returned"
            /\ IF spline.self.mirror THEN same(gen.result.tris, other.tris)
               ELSE same(other.tris, gen.result.tris)

\* A mirrored spline's mesh with triangles in both strips.
C26_Witness ==
    /\ MeshedRoad
    /\ spline.self.mirror
    /\ Len(gen.result.tris) >= 6
    /\ gen.result.tris[1] = <<0, 3, 1>>

\* C27: generate_tesselation_points returns a sample list and raises
\* nothing for every spline with a length above 0 and a tessellation distance
\* and a sag above 0, also when the height polynomial of a spline with a
\* height difference has c = 0 and a # 0.
C27_TesselationNeverRaises ==
    (/\ gen.state = "called"
     /\ gen.op = "generate_tesselation_points"
     /\ flt(Fl(0, 1), spline.self.length)
     /\ flt(Fl(0, 1), spline.spline_tess_dist)
     /\ flt(Fl(0, 1), spline.spline_curve_sag))
        => gen.result.state = "returned"

\* The samples are in non-decreasing order; every sample lies in 0..length.
Sorted(samples) == \A i \in 1..(Len(samples) - 1) : ~flt(samples[i + 1], samples[i])

Within(samples, length) ==
    \A i \in 1..Len(samples) : ~flt(samples[i], Fl(0, 1)) /\ ~flt(length, samples[i])

\* C28: for a spline of length > 0 the samples generate_tesselation_points
\* returns are in non-decreasing order and every sample lies in 0..length;
\* merging samples and pinning the end samples puts no sample out of order.
C28_SortedWithinLength ==
    (Tesselated /\ flt(Fl(0, 1), spline.self.length)) =>
        /\ Sorted(gen.result.samples)
        /\ Within(gen.result.samples, spline.self.length)

\* The key of the LOD that is open when line k is read: the parameter of the
\* last [LOD] section before it, or -1 when there is none.
LodOpen(k) ==
    LET Opens(j) == j > 1 /\ lines[j - 1] = "[LOD]" /\ ~IsHeader(lines[j])
    IN  IF \E j \in 1..(k - 1) : Opens(j)
        THEN float(lines[CHOOSE j \in 1..(k - 1) :
                             Opens(j) /\ \A h \in (j + 1)..(k - 1) : ~Opens(h)])
        ELSE Number(-1)

\* C30: no mesh read_cfg registered is lost: in the tree it returns, the
\* path of every [mesh] section is a key of the bucket of the LOD that was
\* open when the section was read, also when a later [LOD] section repeats
\* a threshold.
C30_NoMeshLost ==
    cfg.state = "returned" =>
        \A k \in 2..Len(lines) :
            (lines[k - 1] = "[mesh]" /\ ~IsHeader(lines[k])) =>
                /\ LodOpen(k) \in DOMAIN cfg.cfg_data
                /\ lines[k] \in DOMAIN cfg.cfg_data[LodOpen(k)].meshes

====
